---- MODULE Spec2Model ----
(***************************************************************************)
(* ModelSmith: the record store (database/db_manager.py) and the dataset,  *)
(* experiment, labeling and model services built on it (services/*.py).    *)
(*                                                                         *)
(* The four tables are functions from a row id to a record.  Row ids are   *)
(* uuid4 strings in the program; here they are fresh integers handed out   *)
(* by a counter, so an id is never used twice.  Python's None is the       *)
(* absence of a key (metrics), the integer None (an id or a value), or an  *)
(* option record [given |-> FALSE] (an optional argument).                 *)
(***************************************************************************)
EXTENDS Integers, Sequences, FiniteSets, TLC

(* ------------------------------ bounds -------------------------------- *)
MaxDatasets == 1
MaxAnnotations == 2
MaxExperiments == 1
MaxModels == 2
MaxVersion == 3
MaxRows == 1
MaxClock == 3
MaxListed == 2
MaxCompared == 3
MaxFiles == 2
MaxColumns == 4
MaxCallers == 2

(* None: Python's None / JSON null where an integer is expected. *)
None == 0 - 1

VARIABLES
    datasets,     \* table datasets:    id -> Dataset row
    annotations,  \* table annotations: id -> Annotation row
    experiments,  \* table experiments: id -> Experiment row
    models,       \* table models:      id -> Model row
    nextId,       \* the next fresh id of each kind (uuid.uuid4())
    clock,        \* datetime.now()
    held,         \* an object a caller holds in memory (<< >> if none)
    conn,         \* the open connection of a cascade delete, statement by statement
    exported,     \* the file export_annotations wrote at output_path (<< >> if none)
    callers,      \* each concurrent caller of refresh_dataset: its position and its copy
    last          \* the last call: its name, arguments and result

vars == <<datasets, annotations, experiments, models, nextId, clock, held, conn, exported,
          callers, last>>

Restrict(f, S) == [x \in S |-> f[x]]

Put(f, k, v) == [x \in DOMAIN f \cup {k} |-> IF x = k THEN v ELSE f[x]]

(* An optional argument: not passed (Python's default None) or a value. *)
NoArg == [given |-> FALSE]

Some(v) == [given |-> TRUE, val |-> v]

(* Python's truth value of an optional str, list or dict argument: None and *)
(* the empty value are both false.                                          *)
TruthyStr(arg) == arg.given /\ arg.val # ""

TruthyList(arg) == arg.given /\ Len(arg.val) > 0

TruthyDict(arg) == arg.given /\ DOMAIN arg.val # {}

(* dict.update(other) *)
DictUpdate_Replace(d, other) == other

DictUpdate(d, other) ==
    [k \in DOMAIN d \cup DOMAIN other |-> IF k \in DOMAIN other THEN other[k] ELSE d[k]]

(* dict.get(key) and dict.get(key, default) *)
DictGet_Zero(d, k) == IF k \in DOMAIN d THEN d[k] ELSE 0

DictGet(d, k) == IF k \in DOMAIN d THEN d[k] ELSE None

DictGetOr(d, k, default) == IF k \in DOMAIN d THEN d[k] ELSE default

Range(seq) == {seq[i] : i \in 1..Len(seq)}

CallerIds == 1..MaxCallers

Tables == <<datasets, annotations, experiments, models>>

Closed == [pc |-> "closed"]

Idle == [op |-> "none"]

Init ==
    /\ datasets = << >>
    /\ annotations = << >>
    /\ experiments = << >>
    /\ models = << >>
    /\ nextId = [dataset |-> 1, annotation |-> 1, experiment |-> 1, model |-> 1]
    /\ clock = 1
    /\ held = << >>
    /\ conn = Closed
    /\ exported = << >>
    /\ callers = [c \in CallerIds |-> [pc |-> "idle"]]
    /\ last = Idle

(* ------------------------- the dataset source -------------------------- *)
(* What is at a path: nothing, a directory, or a file with an extension.   *)
PathKinds == {"missing", "dir", "csv", "CSV", "tsv", "json", "jsonl", "txt"}

SUPPORTED_CSV_EXTENSIONS == {"csv", "tsv"}

SUPPORTED_JSON_EXTENSIONS == {"json", "jsonl"}

SUPPORTED_IMAGE_EXTENSIONS == {"jpg", "jpeg", "png", "gif", "bmp", "webp"}

(* str.lower() on the extensions that occur. *)
Lower(ext) ==
    CASE ext = "CSV" -> "csv"
      [] ext = "JPG" -> "jpg"
      [] ext = "Png" -> "png"
      [] OTHER -> ext

(* What the source holds when it is analysed.  A file parses to `rows`      *)
(* records with the columns `columns` ([name, dtype], names distinct), or   *)
(* it does not parse (or cannot be read); a directory holds `files`, each   *)
(* [class, ext]: the folder it is in and its extension.                     *)
Unreadable == [parses |-> FALSE, rows |-> 0, columns |-> << >>, files |-> << >>]

Parsed(rows, columns) ==
    [parses |-> TRUE, rows |-> rows, columns |-> columns, files |-> << >>]

Directory(files) == [parses |-> FALSE, rows |-> 0, columns |-> << >>, files |-> files]

Contents ==
    {Unreadable} \cup {Parsed(r, <<[name |-> "a", dtype |-> "int64"]>>) : r \in 0..MaxRows}

ErrorDescription == "Error analyzing"

(* {col: str(dtype) for col, dtype in df.dtypes.items()} *)
SchemaOf(columns) ==
    [name \in {columns[i].name : i \in 1..Len(columns)} |->
         columns[CHOOSE i \in 1..Len(columns) : columns[i].name = name].dtype]

ErrorStats_Zeroed(dataset) ==
    [dataset EXCEPT !.description = ErrorDescription, !.row_count = 0,
                    !.column_count = 0, !.schema = << >>]

ErrorStats(dataset) == [dataset EXCEPT !.description = ErrorDescription]

analyze_csv(dataset, content) ==
    IF content.parses
    THEN [dataset EXCEPT !.row_count = content.rows,
                         !.column_count = Len(content.columns),
                         !.schema = SchemaOf(content.columns)]
    ELSE ErrorStats(dataset)

analyze_json(dataset, content) ==
    IF content.parses
    THEN IF content.rows > 0
         THEN [dataset EXCEPT !.row_count = content.rows,
                              !.column_count = Len(content.columns),
                              !.schema = SchemaOf(content.columns)]
         ELSE dataset
    ELSE ErrorStats(dataset)

IsImage_CaseSensitive(file) == file.ext \in SUPPORTED_IMAGE_EXTENSIONS

IsImage(file) == Lower(file.ext) \in SUPPORTED_IMAGE_EXTENSIONS

(* The loop over os.walk: image_count and classes after the files from i on. *)
(* os.walk reports nothing for a directory it cannot read.                  *)
RECURSIVE WalkLoop(_, _, _, _)
WalkLoop(files, i, image_count, classes) ==
    IF i > Len(files)
    THEN [image_count |-> image_count, classes |-> classes]
    ELSE IF IsImage(files[i])
         THEN WalkLoop(files, i + 1, image_count + 1,
                       Put(classes, files[i].class, DictGetOr(classes, files[i].class, 0) + 1))
         ELSE WalkLoop(files, i + 1, image_count, classes)

analyze_images(dataset, content) ==
    LET walked == WalkLoop(content.files, 1, 0, << >>)
    IN [dataset EXCEPT !.row_count = walked.image_count,
                       !.column_count = Cardinality(DOMAIN walked.classes),
                       !.schema = walked.classes]

(* The except branch of _analyze_csv / _analyze_json is taken. *)
AnalysisFails(dataset, content) == dataset.type \in {"csv", "json"} /\ ~content.parses

analyze_dataset(dataset, content) ==
    CASE dataset.type = "csv" -> analyze_csv(dataset, content)
      [] dataset.type = "json" -> analyze_json(dataset, content)
      [] dataset.type = "images" -> analyze_images(dataset, content)
      [] OTHER -> dataset

(* ------------------------- record store: datasets ---------------------- *)
db_create_dataset(tbl, dataset) == Put(tbl, dataset.id, dataset)

(* UPDATE datasets SET ... WHERE id = ?: every column but id is overwritten *)
(* from the object; no row, no change.                                      *)
db_update_dataset(tbl, dataset) ==
    IF dataset.id \in DOMAIN tbl THEN [tbl EXCEPT ![dataset.id] = dataset] ELSE tbl

(* DELETE FROM <table> WHERE <ids>: the rows left and cursor.rowcount. *)
ExecDelete_NoWhere(tbl, ids) ==
    [rows |-> << >>, rowcount |-> Cardinality(DOMAIN tbl)]

ExecDelete(tbl, ids) ==
    [rows |-> Restrict(tbl, DOMAIN tbl \ ids),
     rowcount |-> Cardinality(DOMAIN tbl \cap ids)]

AnnotationsOf(tbl, dataset_id) == {a \in DOMAIN tbl : tbl[a].dataset_id = dataset_id}

ModelsOf(tbl, experiment_id) == {m \in DOMAIN tbl : tbl[m].experiment_id = experiment_id}

(* ---------------------------- DatasetService --------------------------- *)
DatasetType_CaseSensitive(kind) ==
    CASE kind = "dir" -> "images"
      [] kind \in SUPPORTED_CSV_EXTENSIONS -> "csv"
      [] kind \in SUPPORTED_JSON_EXTENSIONS -> "json"
      [] OTHER -> "unsupported"

DatasetType(kind) ==
    CASE kind = "dir" -> "images"
      [] Lower(kind) \in SUPPORTED_CSV_EXTENSIONS -> "csv"
      [] Lower(kind) \in SUPPORTED_JSON_EXTENSIONS -> "json"
      [] OTHER -> "unsupported"

(* os.path.basename(path): a name is a text, the sequence of its parts. *)
basename(kind) == IF kind = "dir" THEN <<"data">> ELSE <<"data", ".", kind>>

NewDataset(id, name, type) ==
    [id |-> id, name |-> name, type |-> type, description |-> "", row_count |-> 0,
     column_count |-> 0, schema |-> << >>, version |-> 1]

import_dataset(kind, name, content) ==
    /\ IF kind = "missing" \/ DatasetType(kind) = "unsupported"
       THEN /\ last' = [op |-> "import_dataset", ok |-> FALSE, id |-> None,
                        prev |-> None, res |-> None, kind |-> kind, name |-> name,
                        content |-> content, before |-> datasets,
                        raised |-> IF kind = "missing"
                                   THEN "FileNotFoundError" ELSE "ValueError"]
            /\ UNCHANGED <<datasets, nextId>>
       ELSE LET id == nextId.dataset
                new == NewDataset(id, IF name.given THEN name.val ELSE basename(kind),
                                  DatasetType(kind))
                dataset == analyze_dataset(new, content)
            IN /\ id <= MaxDatasets
               /\ datasets' = db_create_dataset(datasets, dataset)
               /\ nextId' = [nextId EXCEPT !.dataset = id + 1]
               /\ last' = [op |-> "import_dataset", ok |-> TRUE, id |-> id,
                           prev |-> None, res |-> dataset.version, kind |-> kind,
                           name |-> name, content |-> content, before |-> datasets,
                           failed |-> AnalysisFails(new, content), analyzed |-> new]
    /\ UNCHANGED <<annotations, experiments, models, clock, held, conn, exported,
                   callers>>

(* A caller reads a dataset and keeps the object (the views' current_dataset). *)
get_dataset(dataset_id) ==
    /\ IF dataset_id \in DOMAIN datasets
       THEN /\ held' = <<datasets[dataset_id]>>
            /\ last' = [op |-> "get_dataset", ok |-> TRUE, id |-> dataset_id,
                        prev |-> datasets[dataset_id].version,
                        res |-> datasets[dataset_id].version]
       ELSE /\ held' = held
            /\ last' = [op |-> "get_dataset", ok |-> FALSE, id |-> dataset_id,
                        prev |-> None, res |-> None]
    /\ UNCHANGED <<datasets, annotations, experiments, models, nextId, clock, conn, exported,
                   callers>>

StoredVersion(dataset_id) ==
    IF dataset_id \in DOMAIN datasets THEN datasets[dataset_id].version ELSE None

NextVersion_No_Increment(version) == version

NextVersion(version) == version + 1

(* update_dataset(dataset, increment_version) on the object the caller holds. *)
update_dataset(increment_version) ==
    /\ held # << >>
    /\ held[1].version < MaxVersion
    /\ LET dataset == IF increment_version
                      THEN [held[1] EXCEPT !.version = NextVersion(@)]
                      ELSE held[1]
       IN /\ datasets' = db_update_dataset(datasets, dataset)
          /\ held' = <<dataset>>
          /\ last' = [op |-> "update_dataset", ok |-> TRUE, id |-> dataset.id,
                      prev |-> StoredVersion(dataset.id), res |-> dataset.version,
                      increment_version |-> increment_version]
    /\ UNCHANGED <<annotations, experiments, models, nextId, clock, conn, exported,
                   callers>>

refresh_dataset(dataset_id, content) ==
    /\ IF dataset_id \notin DOMAIN datasets
       THEN /\ last' = [op |-> "refresh_dataset", ok |-> FALSE, id |-> dataset_id,
                        prev |-> None, res |-> None, content |-> content,
                        before |-> Tables]
            /\ UNCHANGED datasets
       ELSE /\ datasets[dataset_id].version < MaxVersion
            /\ LET analyzed == analyze_dataset(datasets[dataset_id], content)
                   dataset == [analyzed EXCEPT !.version = NextVersion(@)]
               IN /\ datasets' = db_update_dataset(datasets, dataset)
                  /\ last' = [op |-> "refresh_dataset", ok |-> TRUE, id |-> dataset_id,
                              prev |-> datasets[dataset_id].version,
                              res |-> dataset.version, content |-> content,
                              failed |-> AnalysisFails(datasets[dataset_id], content),
                              analyzed |-> datasets[dataset_id]]
    /\ UNCHANGED <<annotations, experiments, models, nextId, clock, held, conn, exported,
                   callers>>

(* refresh_dataset as a caller runs it: self.db.get_dataset reads the row   *)
(* in a connection of its own, and self.db.update_dataset writes the whole  *)
(* analyzed copy back in another; other callers may run in between.         *)
refresh_read(c, dataset_id) ==
    /\ callers[c].pc = "idle"
    /\ IF dataset_id \in DOMAIN datasets
       THEN /\ callers' = [callers EXCEPT ![c] = [pc |-> "read",
                                                  dataset |-> datasets[dataset_id]]]
            /\ last' = [op |-> "refresh_read", ok |-> TRUE, id |-> dataset_id,
                        caller |-> c]
       ELSE /\ callers' = [callers EXCEPT ![c] = [pc |-> "raised"]]
            /\ last' = [op |-> "refresh_read", ok |-> FALSE, id |-> dataset_id,
                        caller |-> c]
    /\ UNCHANGED <<datasets, annotations, experiments, models, nextId, clock, held, conn,
                   exported>>

refresh_write(c, content) ==
    /\ callers[c].pc = "read"
    /\ callers[c].dataset.version < MaxVersion
    /\ LET analyzed == analyze_dataset(callers[c].dataset, content)
           dataset == [analyzed EXCEPT !.version = NextVersion(@)]
       IN /\ datasets' = db_update_dataset(datasets, dataset)
          /\ callers' = [callers EXCEPT ![c] = [pc |-> "done", id |-> dataset.id]]
          /\ last' = [op |-> "refresh_write", ok |-> TRUE, id |-> dataset.id,
                      caller |-> c, prev |-> StoredVersion(dataset.id),
                      res |-> dataset.version]
    /\ UNCHANGED <<annotations, experiments, models, nextId, clock, held, conn, exported>>

(* load_data(dataset, limit): the columns of the DataFrame it returns, or   *)
(* raised when read_csv / json.load fails or the type is unknown.  A column *)
(* name is a text, the sequence of its characters.  json_normalize([]) and  *)
(* DataFrame([]) have no columns.                                           *)
ImageColumns ==
    << <<"f", "i", "l", "e", "n", "a", "m", "e">>, <<"p", "a", "t", "h">>,
       <<"c", "l", "a", "s", "s">> >>

load_data(dataset, content) ==
    CASE dataset.type = "csv" ->
             IF content.parses
             THEN [raised |-> FALSE,
                   columns |-> [i \in 1..Len(content.columns) |-> content.columns[i].name]]
             ELSE [raised |-> TRUE, columns |-> << >>]
      [] dataset.type = "json" ->
             IF content.parses
             THEN [raised |-> FALSE,
                   columns |-> IF content.rows > 0
                               THEN [i \in 1..Len(content.columns) |-> content.columns[i].name]
                               ELSE << >>]
             ELSE [raised |-> TRUE, columns |-> << >>]
      [] dataset.type = "images" ->
             [raised |-> FALSE,
              columns |-> IF \E i \in 1..Len(content.files) : IsImage(content.files[i])
                          THEN ImageColumns
                          ELSE << >>]
      [] OTHER -> [raised |-> TRUE, columns |-> << >>]

(* stats['column_stats'][col] for the first n columns of the file. *)
ColumnStats(content, n) ==
    [name \in {content.columns[i].name : i \in 1..n} |->
         LET i == CHOOSE i \in 1..n : content.columns[i].name = name
         IN [dtype |-> content.columns[i].dtype,
             numeric |-> content.columns[i].dtype # "object"]]

(* The dict get_statistics starts from, before anything is loaded. *)
EmptyStatistics(dataset) ==
    [basic_stats |-> [row_count |-> dataset.row_count,
                      column_count |-> dataset.column_count, type |-> dataset.type],
     column_stats |-> << >>, missing_values |-> << >>, class_distribution |-> << >>]

(* get_statistics: load_data and the loop over the columns run inside       *)
(* try / except Exception, which stores str(e) under 'error'.  fails_at is  *)
(* the column whose statistics raise (0: none does).                        *)
Statistics_Propagates(dataset, content, fails_at) ==
    [raised |-> load_data(dataset, content).raised, stats |-> EmptyStatistics(dataset)]

Statistics(dataset, content, fails_at) ==
    LET stats == EmptyStatistics(dataset)
        df == load_data(dataset, content)
    IN [raised |-> FALSE,
        stats |->
            IF df.raised
            THEN [error |-> "load_data"] @@ stats
            ELSE IF dataset.type \in {"csv", "json"}
            THEN IF fails_at \in 1..Len(df.columns)
                 THEN [error |-> "column"] @@
                      [stats EXCEPT !.column_stats = ColumnStats(content, fails_at - 1)]
                 ELSE [stats EXCEPT !.column_stats = ColumnStats(content, Len(df.columns))]
            ELSE [stats EXCEPT !.class_distribution = dataset.schema]]

get_statistics(dataset, content, fails_at) ==
    /\ last' = [op |-> "get_statistics", ok |-> ~Statistics(dataset, content, fails_at).raised,
                id |-> dataset.id, dataset |-> dataset, content |-> content,
                fails_at |-> fails_at,
                res |-> Statistics(dataset, content, fails_at).stats,
                before |-> Tables]
    /\ UNCHANGED <<datasets, annotations, experiments, models, nextId, clock, held, conn,
                   exported, callers>>

(* str.lower() of a text, character by character. *)
LowerChar(c) ==
    CASE c = "T" -> "t"
      [] c = "L" -> "l"
      [] c = "Y" -> "y"
      [] OTHER -> c

LowerText(text) == [i \in 1..Len(text) |-> LowerChar(text[i])]

(* `name in col`: name is a substring of col *)
Contains(name, col) ==
    \E i \in 0..(Len(col) - Len(name)) : SubSeq(col, i + 1, i + Len(name)) = name

target_names ==
    << <<"t", "a", "r", "g", "e", "t">>, <<"l", "a", "b", "e", "l">>,
       <<"c", "l", "a", "s", "s">>, <<"y">>,
       <<"o", "u", "t", "c", "o", "m", "e">>,
       <<"r", "e", "s", "u", "l", "t">> >>

(* for name in target_names: for col in df.columns: if name.lower() in      *)
(* col.lower(): return col                                                  *)
RECURSIVE ColumnLoop(_, _, _)
ColumnLoop(name, columns, i) ==
    IF i > Len(columns)
    THEN NoArg
    ELSE IF Contains(LowerText(name), LowerText(columns[i]))
         THEN Some(columns[i])
         ELSE ColumnLoop(name, columns, i + 1)

RECURSIVE FirstMatch_ColumnFirst(_, _)
FirstMatch_ColumnFirst(names, columns) ==
    IF columns = << >>
    THEN NoArg
    ELSE IF \E k \in 1..Len(names) : Contains(LowerText(names[k]), LowerText(Head(columns)))
         THEN Some(Head(columns))
         ELSE FirstMatch_ColumnFirst(names, Tail(columns))

RECURSIVE FirstMatch(_, _)
FirstMatch(names, columns) ==
    IF names = << >>
    THEN NoArg
    ELSE IF ColumnLoop(Head(names), columns, 1).given
         THEN ColumnLoop(Head(names), columns, 1)
         ELSE FirstMatch(Tail(names), columns)

(* The column name returned, NoArg for None. *)
TargetColumn(dataset, content) ==
    LET df == load_data(dataset, content)
        match == FirstMatch(target_names, df.columns)
    IN IF df.raised
       THEN NoArg
       ELSE IF match.given
            THEN match
            ELSE IF dataset.type = "images"
                 THEN Some(<<"c", "l", "a", "s", "s">>)
                 ELSE IF Len(df.columns) > 0
                      THEN Some(df.columns[Len(df.columns)])
                      ELSE NoArg

(* detect_target_column(dataset) on the object the caller holds, over what  *)
(* is at its path now.                                                      *)
detect_target_column(content) ==
    /\ held # << >>
    /\ last' = [op |-> "detect_target_column", ok |-> TRUE, id |-> held[1].id,
                type |-> held[1].type, content |-> content,
                loaded |-> ~load_data(held[1], content).raised,
                columns |-> load_data(held[1], content).columns,
                res |-> TargetColumn(held[1], content)]
    /\ UNCHANGED <<datasets, annotations, experiments, models, nextId, clock, held, conn,
                   exported, callers>>

(* Ids a caller may pass: of a stored row, of a deleted row, of a row not  *)
(* created yet.                                                            *)
DatasetIds == 1..MaxDatasets

AnnotationIds == 1..MaxAnnotations

ExperimentIds == 1..MaxExperiments

ModelIds == 1..MaxModels

(* The WHERE clause of the cascade's first DELETE. *)
DatasetChildren_None(tbl, dataset_id) == {}

DatasetChildren(tbl, dataset_id) == {a \in DOMAIN tbl : tbl[a].dataset_id = dataset_id}

ExperimentChildren_None(tbl, experiment_id) == {}

ExperimentChildren(tbl, experiment_id) ==
    {m \in DOMAIN tbl : tbl[m].experiment_id = experiment_id}

(* `return cursor.rowcount > 0`: the rowcount of the last statement the     *)
(* cursor executed, the DELETE of the parent row.                           *)
DeleteResult_FirstStatement(children, parent) == children.rowcount > 0

DeleteResult(children, parent) == parent.rowcount > 0

(* delete_dataset: both DELETEs run on one connection and are committed     *)
(* together (the statement-level actions are further below).                *)
delete_dataset(dataset_id) ==
    /\ LET ids == DatasetChildren(annotations, dataset_id)
           children == ExecDelete(annotations, ids)
           parent == ExecDelete(datasets, {dataset_id})
       IN /\ annotations' = children.rows
          /\ datasets' = parent.rows
          /\ last' = [op |-> "delete_dataset", ok |-> TRUE, id |-> dataset_id,
                      prev |-> dataset_id \in DOMAIN datasets,
                      children |-> AnnotationsOf(annotations, dataset_id),
                      res |-> DeleteResult(children, parent)]
    /\ UNCHANGED <<experiments, models, nextId, clock, held, conn, exported, callers>>

(* ---------------------------- LabelingService -------------------------- *)
(* A tag is a text: the sequence of its characters (<< >> for ''), so that  *)
(* ';'.join, str.split(';') and str.strip act on it as they do in Python.   *)
Whitespace == {" "}

(* `tags or []`, `metadata or {}` *)
ValueOr(arg, default) == IF arg.given /\ arg.val # default THEN arg.val ELSE default

NewAnnotation(id, dataset_id, item_index, item_path, label, tags, metadata, now) ==
    [id |-> id, dataset_id |-> dataset_id, item_index |-> item_index,
     item_path |-> item_path, label |-> label, tags |-> tags, metadata |-> metadata,
     created_at |-> now, updated_at |-> now]

db_create_annotation(tbl, annotation) == Put(tbl, annotation.id, annotation)

(* UPDATE annotations SET <every column but id> WHERE id = ? *)
db_update_annotation(tbl, annotation) ==
    IF annotation.id \in DOMAIN tbl THEN [tbl EXCEPT ![annotation.id] = annotation] ELSE tbl

(* SELECT * FROM annotations WHERE dataset_id = ? ORDER BY item_index; rows *)
(* with the same item_index come in insertion order.                        *)
RECURSIVE OrderByItemIndex(_, _)
OrderByItemIndex(tbl, ids) ==
    IF ids = {}
    THEN << >>
    ELSE LET first == CHOOSE a \in ids :
                          \A b \in ids :
                              \/ tbl[a].item_index < tbl[b].item_index
                              \/ tbl[a].item_index = tbl[b].item_index /\ a <= b
         IN <<tbl[first]>> \o OrderByItemIndex(tbl, ids \ {first})

db_get_annotations_by_dataset(tbl, dataset_id) ==
    OrderByItemIndex(tbl, {a \in DOMAIN tbl : tbl[a].dataset_id = dataset_id})

(* The annotations add_label creates one after the other for `items`, each  *)
(* a record [item_index, item_path, label, tags, metadata] of its arguments. *)
RECURSIVE AddLabels(_, _, _, _, _)
AddLabels(tbl, id, dataset_id, items, now) ==
    IF items = << >>
    THEN tbl
    ELSE LET item == Head(items)
             annotation == NewAnnotation(id, dataset_id, item.item_index, item.item_path,
                                         item.label, ValueOr(item.tags, << >>),
                                         ValueOr(item.metadata, << >>), now)
         IN AddLabels(db_create_annotation(tbl, annotation), id + 1, dataset_id,
                      Tail(items), now)

(* add_label accepts any dataset_id: the store does not check the reference. *)
add_label(dataset_id, item_index, item_path, label, tags, metadata) ==
    /\ nextId.annotation <= MaxAnnotations
    /\ LET id == nextId.annotation
           item == [item_index |-> item_index, item_path |-> item_path, label |-> label,
                    tags |-> tags, metadata |-> metadata]
       IN /\ annotations' = AddLabels(annotations, id, dataset_id, <<item>>, clock)
          /\ nextId' = [nextId EXCEPT !.annotation = id + 1]
          /\ last' = [op |-> "add_label", ok |-> TRUE, id |-> id]
    /\ UNCHANGED <<datasets, experiments, models, clock, held, conn, exported, callers>>

(* delete_label -> DatabaseManager.delete_annotation *)
(* label_data['item_index'] or label_data['label'] raises KeyError. *)
EntryFails(label_data) == ~({"item_index", "label"} \subseteq DOMAIN label_data)

(* The keyword arguments bulk_label passes to add_label for one entry. *)
BulkItem(label_data) ==
    [item_index |-> label_data.item_index, label |-> label_data.label,
     item_path |-> DictGetOr(label_data, "item_path", ""),
     tags |-> IF "tags" \in DOMAIN label_data THEN Some(label_data.tags) ELSE NoArg,
     metadata |-> IF "metadata" \in DOMAIN label_data
                  THEN Some(label_data.metadata) ELSE NoArg]

(* The entries the loop of bulk_label gets through: all of them, or those   *)
(* before the first one that raises.                                        *)
BulkPrefix_AllOrNothing(labels) ==
    IF \E i \in 1..Len(labels) : EntryFails(labels[i]) THEN << >> ELSE labels

BulkPrefix(labels) ==
    IF \E i \in 1..Len(labels) : EntryFails(labels[i])
    THEN SubSeq(labels, 1,
                (CHOOSE i \in 1..Len(labels) :
                     /\ EntryFails(labels[i])
                     /\ \A j \in 1..(i - 1) : ~EntryFails(labels[j])) - 1)
    ELSE labels

bulk_label(dataset_id, labels) ==
    /\ LET done == BulkPrefix(labels)
           items == [i \in 1..Len(done) |-> BulkItem(done[i])]
       IN /\ nextId.annotation + Len(items) - 1 <= MaxAnnotations
          /\ annotations' = AddLabels(annotations, nextId.annotation, dataset_id, items,
                                      clock)
          /\ nextId' = [nextId EXCEPT !.annotation = @ + Len(items)]
          /\ last' = [op |-> "bulk_label", ok |-> Len(done) = Len(labels),
                      id |-> dataset_id, labels |-> labels, before |-> annotations,
                      first |-> nextId.annotation,
                      raised |-> IF Len(done) = Len(labels) THEN "none" ELSE "KeyError"]
    /\ UNCHANGED <<datasets, experiments, models, clock, held, conn, exported, callers>>

delete_annotation(annotation_id) ==
    /\ LET deleted == ExecDelete(annotations, {annotation_id})
       IN /\ annotations' = deleted.rows
          /\ last' = [op |-> "delete_annotation", ok |-> TRUE, id |-> annotation_id,
                      prev |-> annotation_id \in DOMAIN annotations,
                      res |-> deleted.rowcount > 0]
    /\ UNCHANGED <<datasets, experiments, models, nextId, clock, held, conn, exported,
                   callers>>

(* ';'.join(texts) *)
RECURSIVE Join(_, _)
Join(texts, sep) ==
    IF texts = << >>
    THEN << >>
    ELSE IF Len(texts) = 1
         THEN Head(texts)
         ELSE Head(texts) \o <<sep>> \o Join(Tail(texts), sep)

(* text.split(';'): one piece more than there are separators; '' gives ['']. *)
RECURSIVE Split(_, _)
Split(text, sep) ==
    IF \E i \in 1..Len(text) : text[i] = sep
    THEN LET i == CHOOSE i \in 1..Len(text) :
                      text[i] = sep /\ \A j \in 1..(i - 1) : text[j] # sep
         IN <<SubSeq(text, 1, i - 1)>> \o Split(SubSeq(text, i + 1, Len(text)), sep)
    ELSE <<text>>

(* text.strip() *)
RECURSIVE Strip(_)
Strip(text) ==
    IF text = << >>
    THEN text
    ELSE IF Head(text) \in Whitespace
         THEN Strip(Tail(text))
         ELSE IF text[Len(text)] \in Whitespace
              THEN Strip(SubSeq(text, 1, Len(text) - 1))
              ELSE text

(* [t.strip() for t in tags if t.strip()] *)
RECURSIVE StripAll(_)
StripAll(tags) ==
    IF tags = << >>
    THEN << >>
    ELSE IF Strip(Head(tags)) # << >>
         THEN <<Strip(Head(tags))>> \o StripAll(Tail(tags))
         ELSE StripAll(Tail(tags))

(* The record json.dump writes for an annotation, and the row csv.writer    *)
(* writes: its tags cell is the tags joined by ';'.                         *)
JsonRecord(ann) ==
    [item_index |-> ann.item_index, item_path |-> ann.item_path, label |-> ann.label,
     tags |-> ann.tags, metadata |-> ann.metadata, created_at |-> ann.created_at,
     updated_at |-> ann.updated_at]

CsvRow(ann) ==
    [item_index |-> ann.item_index, item_path |-> ann.item_path, label |-> ann.label,
     tags |-> Join(ann.tags, ";"), created_at |-> ann.created_at]

Formats == {"json", "csv", "xml"}

export_annotations(dataset_id, format) ==
    /\ LET anns == db_get_annotations_by_dataset(annotations, dataset_id)
           rows == [i \in 1..Len(anns) |->
                        IF format = "json" THEN JsonRecord(anns[i]) ELSE CsvRow(anns[i])]
       IN IF format \in {"json", "csv"}
          THEN /\ exported' = <<[format |-> format, rows |-> rows]>>
               /\ last' = [op |-> "export_annotations", ok |-> TRUE, id |-> dataset_id,
                           format |-> format]
          ELSE /\ exported' = exported
               /\ last' = [op |-> "export_annotations", ok |-> FALSE, id |-> dataset_id,
                           format |-> format]
    /\ UNCHANGED <<datasets, annotations, experiments, models, nextId, clock, held, conn,
                   callers>>

(* The arguments import_annotations passes to add_label for one record of a *)
(* json file and for one row of a csv file.                                 *)
JsonItem(item) ==
    [item_index |-> item.item_index, item_path |-> item.item_path, label |-> item.label,
     tags |-> Some(item.tags), metadata |-> Some(item.metadata)]

CsvTags(cell) == StripAll(IF cell # << >> THEN Split(cell, ";") ELSE << >>)

CsvItem(row) ==
    [item_index |-> row.item_index, item_path |-> row.item_path, label |-> row.label,
     tags |-> Some(CsvTags(row.tags)), metadata |-> NoArg]

(* Reading a file in the other format: json.load of csv text raises; the    *)
(* csv reader takes the first line of json text for the header, so a row    *)
(* has no 'item_index' (KeyError) unless there is no row at all.            *)
ImportRaises(file, format) ==
    \/ format \notin {"json", "csv"}
    \/ file = << >>
    \/ format = "json" /\ file[1].format = "csv"
    \/ format = "csv" /\ file[1].format = "json" /\ file[1].rows # << >>

import_annotations(dataset_id, format) ==
    /\ IF ImportRaises(exported, format)
       THEN /\ last' = [op |-> "import_annotations", ok |-> FALSE, id |-> dataset_id,
                        format |-> format, empty |-> FALSE]
            /\ UNCHANGED <<annotations, nextId>>
       ELSE LET rows == exported[1].rows
                items == [i \in 1..Len(rows) |->
                              IF format = "json" /\ exported[1].format = "json"
                              THEN JsonItem(rows[i])
                              ELSE CsvItem(rows[i])]
            IN /\ nextId.annotation + Len(items) - 1 <= 2 * MaxAnnotations
               /\ annotations' = AddLabels(annotations, nextId.annotation, dataset_id,
                                           items, clock)
               /\ nextId' = [nextId EXCEPT !.annotation = @ + Len(items)]
               /\ last' = [op |-> "import_annotations", ok |-> TRUE, id |-> dataset_id,
                           format |-> format,
                           empty |-> db_get_annotations_by_dataset(
                                         annotations, dataset_id) = << >>]
    /\ UNCHANGED <<datasets, experiments, models, clock, held, conn, exported, callers>>

(* annotation.metadata.update(metadata) *)
MergeMetadata_Replace(stored, metadata) == metadata

MergeMetadata(stored, metadata) == DictUpdate(stored, metadata)

(* update_label: an argument left at None keeps the stored field. *)
UpdatedAnnotation(annotation, label, tags, metadata, now) ==
    LET a1 == IF label.given THEN [annotation EXCEPT !.label = label.val] ELSE annotation
        a2 == IF tags.given THEN [a1 EXCEPT !.tags = tags.val] ELSE a1
        a3 == IF metadata.given
              THEN [a2 EXCEPT !.metadata = MergeMetadata(@, metadata.val)]
              ELSE a2
    IN [a3 EXCEPT !.updated_at = now]

update_label(annotation_id, label, tags, metadata) ==
    /\ IF annotation_id \notin DOMAIN annotations
       THEN /\ last' = [op |-> "update_label", ok |-> FALSE, id |-> annotation_id,
                        label |-> label, tags |-> tags, metadata |-> metadata,
                        before |-> annotations]
            /\ UNCHANGED annotations
       ELSE /\ annotations' = db_update_annotation(
                                  annotations,
                                  UpdatedAnnotation(annotations[annotation_id], label, tags,
                                                    metadata, clock))
            /\ last' = [op |-> "update_label", ok |-> TRUE, id |-> annotation_id,
                        label |-> label, tags |-> tags, metadata |-> metadata,
                        before |-> annotations]
    /\ UNCHANGED <<datasets, experiments, models, nextId, clock, held, conn, exported,
                   callers>>

(* get_annotation_by_index: the first of the dataset's annotations, in the  *)
(* order of the listing, with that item_index; NoArg for None.              *)
RECURSIVE FirstWithIndex(_, _)
FirstWithIndex(anns, item_index) ==
    IF anns = << >>
    THEN NoArg
    ELSE IF Head(anns).item_index = item_index
         THEN Some(Head(anns))
         ELSE FirstWithIndex(Tail(anns), item_index)

get_annotation_by_index_Never(tbl, dataset_id, item_index) == NoArg

get_annotation_by_index(tbl, dataset_id, item_index) ==
    FirstWithIndex(db_get_annotations_by_dataset(tbl, dataset_id), item_index)

(* LabelingView._apply_label: for each selected row, update the annotation  *)
(* found for it or add one.  The table and the next fresh id after the rows. *)
RECURSIVE ApplyLoop(_, _, _, _, _, _)
ApplyLoop(tbl, id, dataset_id, rows, label, now) ==
    IF rows = << >>
    THEN [annotations |-> tbl, nextId |-> id]
    ELSE LET row == Head(rows)
             existing == get_annotation_by_index(tbl, dataset_id, row)
             item == [item_index |-> row, item_path |-> "", label |-> label,
                      tags |-> NoArg, metadata |-> NoArg]
         IN IF existing.given
            THEN ApplyLoop(db_update_annotation(
                               tbl, UpdatedAnnotation(existing.val, Some(label), NoArg,
                                                      NoArg, now)),
                           id, dataset_id, Tail(rows), label, now)
            ELSE ApplyLoop(AddLabels(tbl, id, dataset_id, <<item>>, now),
                           id + 1, dataset_id, Tail(rows), label, now)

(* `label` is the stripped text of the input; an empty one returns at once. *)
apply_label(dataset_id, rows, label) ==
    /\ LET applied == IF label = ""
                      THEN [annotations |-> annotations, nextId |-> nextId.annotation]
                      ELSE ApplyLoop(annotations, nextId.annotation, dataset_id, rows,
                                     label, clock)
       IN /\ applied.nextId - 1 <= MaxAnnotations
          /\ annotations' = applied.annotations
          /\ nextId' = [nextId EXCEPT !.annotation = applied.nextId]
          /\ last' = [op |-> "apply_label", ok |-> TRUE, id |-> dataset_id,
                      rows |-> rows, label |-> label, before |-> annotations]
    /\ UNCHANGED <<datasets, experiments, models, clock, held, conn, exported, callers>>

(* The loops of get_label_statistics over the dataset's annotations. *)
RECURSIVE CountLabels(_, _)
CountLabels(anns, label_counts) ==
    IF anns = << >>
    THEN label_counts
    ELSE CountLabels(Tail(anns),
                     IF Head(anns).label # ""
                     THEN Put(label_counts, Head(anns).label,
                              DictGetOr(label_counts, Head(anns).label, 0) + 1)
                     ELSE label_counts)

RECURSIVE CountEach(_, _)
CountEach(tags, tag_counts) ==
    IF tags = << >>
    THEN tag_counts
    ELSE CountEach(Tail(tags),
                   Put(tag_counts, Head(tags), DictGetOr(tag_counts, Head(tags), 0) + 1))

RECURSIVE CountTags(_, _)
CountTags(anns, tag_counts) ==
    IF anns = << >>
    THEN tag_counts
    ELSE CountTags(Tail(anns), CountEach(Head(anns).tags, tag_counts))

(* max(0, dataset.row_count - len(annotations)) *)
Unlabeled_Negative(row_count, labeled) == row_count - labeled

Unlabeled(row_count, labeled) ==
    IF row_count - labeled > 0 THEN row_count - labeled ELSE 0

(* len(annotations) / row_count * 100 if row_count > 0 else 0, as the       *)
(* fraction num/den.                                                        *)
ProgressPercent(row_count, labeled) ==
    IF row_count > 0
    THEN [num |-> labeled * 100, den |-> row_count]
    ELSE [num |-> 0, den |-> 1]

LabelStatistics(dataset, anns) ==
    LET label_counts == CountLabels(anns, << >>)
        tag_counts == CountTags(anns, << >>)
    IN [total_items |-> dataset.row_count,
        labeled_items |-> Len(anns),
        unlabeled_items |-> Unlabeled(dataset.row_count, Len(anns)),
        progress_percent |-> ProgressPercent(dataset.row_count, Len(anns)),
        label_distribution |-> label_counts,
        tag_distribution |-> tag_counts,
        unique_labels |-> Cardinality(DOMAIN label_counts),
        unique_tags |-> Cardinality(DOMAIN tag_counts)]

(* A missing dataset is reported in the result: nothing is raised. *)
get_label_statistics(dataset_id) ==
    /\ last' = [op |-> "get_label_statistics", ok |-> TRUE, id |-> dataset_id,
                res |-> IF dataset_id \in DOMAIN datasets
                        THEN LabelStatistics(
                                 datasets[dataset_id],
                                 db_get_annotations_by_dataset(annotations, dataset_id))
                                         ELSE [error |-> "Dataset not found"],
                before |-> Tables]
    /\ UNCHANGED <<datasets, annotations, experiments, models, nextId, clock, held, conn,
                   exported, callers>>

(* Time passes between two calls: datetime.now() is read, not advanced, by a call. *)
tick ==
    /\ clock <= MaxClock
    /\ clock' = clock + 1
    /\ last' = [op |-> "tick", ok |-> TRUE, id |-> None]
    /\ UNCHANGED <<datasets, annotations, experiments, models, nextId, held, conn, exported,
                   callers>>

(* --------------------------- ExperimentService ------------------------- *)
Statuses == {"created", "running", "completed", "failed"}

(* notes is a text: the sequence of its pieces, << >> for "". *)
NewExperiment(id, dataset_id, model_type, tags, now) ==
    [id |-> id, dataset_id |-> dataset_id, model_type |-> model_type,
     parameters |-> << >>, metrics |-> << >>, timestamp |-> now,
     status |-> "created", duration_seconds |-> 0, notes |-> << >>, tags |-> tags]

db_create_experiment(tbl, experiment) == Put(tbl, experiment.id, experiment)

db_update_experiment_Upsert(tbl, experiment) == Put(tbl, experiment.id, experiment)

db_update_experiment(tbl, experiment) ==
    IF experiment.id \in DOMAIN tbl THEN [tbl EXCEPT ![experiment.id] = experiment] ELSE tbl

create_experiment(dataset_id, model_type, tags) ==
    /\ nextId.experiment <= MaxExperiments
    /\ clock <= MaxClock
    /\ LET id == nextId.experiment
       IN /\ experiments' = db_create_experiment(
                                experiments, NewExperiment(id, dataset_id, model_type, tags, clock))
          /\ nextId' = [nextId EXCEPT !.experiment = id + 1]
          /\ clock' = clock + 1
          /\ last' = [op |-> "create_experiment", ok |-> TRUE, id |-> id,
                      prev |-> "none", res |-> "created"]
    /\ UNCHANGED <<datasets, annotations, models, held, conn, exported, callers>>

delete_experiment(experiment_id) ==
    /\ LET ids == ExperimentChildren(models, experiment_id)
           children == ExecDelete(models, ids)
           parent == ExecDelete(experiments, {experiment_id})
       IN /\ models' = children.rows
          /\ experiments' = parent.rows
          /\ last' = [op |-> "delete_experiment", ok |-> TRUE, id |-> experiment_id,
                      prev |-> experiment_id \in DOMAIN experiments,
                      children |-> ModelsOf(models, experiment_id),
                      res |-> DeleteResult(children, parent)]
    /\ UNCHANGED <<datasets, annotations, nextId, clock, held, conn, exported, callers>>

ExperimentStatus(experiment_id) ==
    IF experiment_id \in DOMAIN experiments THEN experiments[experiment_id].status ELSE "none"

(* `raise ValueError(f"... not found: {id}")`, with the tables as they are. *)
NotFound_Default(op, id) ==
    [op |-> op, ok |-> TRUE, id |-> id, prev |-> "none", res |-> "none", before |-> Tables]

NotFound(op, id) ==
    [op |-> op, ok |-> FALSE, id |-> id, prev |-> "none", res |-> "none", before |-> Tables]

start_experiment(experiment_id) ==
    /\ IF experiment_id \in DOMAIN experiments
       THEN /\ clock <= MaxClock
            /\ LET experiment == [experiments[experiment_id] EXCEPT
                                      !.status = "running", !.timestamp = clock]
               IN /\ experiments' = db_update_experiment(experiments, experiment)
                  /\ clock' = clock + 1
                  /\ last' = [op |-> "start_experiment", ok |-> TRUE, id |-> experiment_id,
                              prev |-> ExperimentStatus(experiment_id), res |-> "running"]
       ELSE /\ last' = NotFound("start_experiment", experiment_id)
            /\ UNCHANGED <<experiments, clock>>
    /\ UNCHANGED <<datasets, annotations, models, nextId, held, conn, exported,
                   callers>>

log_metrics(experiment_id, metrics) ==
    /\ IF experiment_id \in DOMAIN experiments
       THEN LET experiment == [experiments[experiment_id] EXCEPT
                                   !.metrics = DictUpdate(@, metrics)]
            IN /\ experiments' = db_update_experiment(experiments, experiment)
               /\ last' = [op |-> "log_metrics", ok |-> TRUE, id |-> experiment_id,
                           prev |-> ExperimentStatus(experiment_id),
                           res |-> experiment.status, args |-> metrics,
                           before |-> experiments]
       ELSE /\ last' = NotFound("log_metrics", experiment_id)
            /\ UNCHANGED experiments
    /\ UNCHANGED <<datasets, annotations, models, nextId, clock, held, conn, exported,
                   callers>>

(* The experiment as complete_experiment writes it back. *)
CompletedExperiment_ReplacesMetrics(e0, metrics, duration_seconds, notes) ==
    LET e1 == [e0 EXCEPT !.status = "completed", !.duration_seconds = duration_seconds]
        e2 == IF TruthyDict(metrics) THEN [e1 EXCEPT !.metrics = metrics.val] ELSE e1
    IN IF notes # << >> THEN [e2 EXCEPT !.notes = notes] ELSE e2

CompletedExperiment(e0, metrics, duration_seconds, notes) ==
    LET e1 == [e0 EXCEPT !.status = "completed", !.duration_seconds = duration_seconds]
        e2 == IF TruthyDict(metrics)
              THEN [e1 EXCEPT !.metrics = DictUpdate(@, metrics.val)]
              ELSE e1
    IN IF notes # << >> THEN [e2 EXCEPT !.notes = notes] ELSE e2

complete_experiment(experiment_id, metrics, duration_seconds, notes) ==
    /\ IF experiment_id \in DOMAIN experiments
       THEN LET e0 == experiments[experiment_id]
                experiment == CompletedExperiment(e0, metrics, duration_seconds, notes)
            IN /\ experiments' = db_update_experiment(experiments, experiment)
               /\ last' = [op |-> "complete_experiment", ok |-> TRUE, id |-> experiment_id,
                           prev |-> ExperimentStatus(experiment_id), res |-> "completed",
                           args |-> [metrics |-> metrics,
                                     duration_seconds |-> duration_seconds,
                                     notes |-> notes],
                           before |-> experiments]
       ELSE /\ last' = NotFound("complete_experiment", experiment_id)
            /\ UNCHANGED experiments
    /\ UNCHANGED <<datasets, annotations, models, nextId, clock, held, conn, exported,
                   callers>>

(* experiment.notes = f"Failed: {error_message}" *)
FailedNotes(notes, error_message) == <<"Failed: ", error_message>>

fail_experiment(experiment_id, error_message) ==
    /\ IF experiment_id \in DOMAIN experiments
       THEN LET experiment == [experiments[experiment_id] EXCEPT
                                   !.status = "failed",
                                   !.notes = FailedNotes(@, error_message)]
            IN /\ experiments' = db_update_experiment(experiments, experiment)
               /\ last' = [op |-> "fail_experiment", ok |-> TRUE, id |-> experiment_id,
                           prev |-> ExperimentStatus(experiment_id), res |-> "failed",
                           args |-> error_message, before |-> experiments]
       ELSE /\ last' = NotFound("fail_experiment", experiment_id)
            /\ UNCHANGED experiments
    /\ UNCHANGED <<datasets, annotations, models, nextId, clock, held, conn, exported,
                   callers>>

log_parameters(experiment_id, parameters) ==
    /\ IF experiment_id \in DOMAIN experiments
       THEN LET experiment == [experiments[experiment_id] EXCEPT
                                   !.parameters = DictUpdate(@, parameters)]
            IN /\ experiments' = db_update_experiment(experiments, experiment)
               /\ last' = [op |-> "log_parameters", ok |-> TRUE, id |-> experiment_id,
                           prev |-> ExperimentStatus(experiment_id),
                           res |-> experiment.status, args |-> parameters,
                           before |-> experiments]
       ELSE /\ last' = NotFound("log_parameters", experiment_id)
            /\ UNCHANGED experiments
    /\ UNCHANGED <<datasets, annotations, models, nextId, clock, held, conn, exported,
                   callers>>

(* export_report writes the HTML of the experiment to output_path, a file   *)
(* of its own, and returns the path; the store is only read.                *)
export_report(experiment_id) ==
    /\ last' = IF experiment_id \in DOMAIN experiments
               THEN [op |-> "export_report", ok |-> TRUE, id |-> experiment_id,
                     prev |-> ExperimentStatus(experiment_id), res |-> "output_path"]
               ELSE NotFound("export_report", experiment_id)
    /\ UNCHANGED <<datasets, annotations, experiments, models, nextId, clock, held, conn,
                   exported, callers>>

(* ------------------------------ ModelService --------------------------- *)
(* version is the dotted string, as the sequence of its (numeric) parts. *)
DefaultVersion == <<1, 0, 0>>

NewModel(id, name, experiment_id, version) ==
    [id |-> id, name |-> name, experiment_id |-> experiment_id, version |-> version,
     metrics |-> << >>, notes |-> "", tags |-> << >>]

db_create_model(tbl, model) == Put(tbl, model.id, model)

(* register_model accepts any experiment_id. *)
register_model(name, experiment_id, version) ==
    /\ nextId.model <= MaxModels
    /\ LET id == nextId.model
       IN /\ models' = db_create_model(models, NewModel(id, name, experiment_id, version))
          /\ nextId' = [nextId EXCEPT !.model = id + 1]
          /\ last' = [op |-> "register_model", ok |-> TRUE, id |-> id]
    /\ UNCHANGED <<datasets, annotations, experiments, clock, held, conn, exported,
                   callers>>

delete_model(model_id) ==
    /\ LET deleted == ExecDelete(models, {model_id})
       IN /\ models' = deleted.rows
          /\ last' = [op |-> "delete_model", ok |-> TRUE, id |-> model_id,
                      prev |-> model_id \in DOMAIN models,
                      res |-> deleted.rowcount > 0]
    /\ UNCHANGED <<datasets, annotations, experiments, nextId, clock, held, conn, exported,
                   callers>>

db_update_model(tbl, model) ==
    IF model.id \in DOMAIN tbl THEN [tbl EXCEPT ![model.id] = model] ELSE tbl

update_model(model_id, notes, tags, metrics) ==
    /\ IF model_id \in DOMAIN models
       THEN LET m0 == models[model_id]
                m1 == IF notes.given THEN [m0 EXCEPT !.notes = notes.val] ELSE m0
                m2 == IF tags.given THEN [m1 EXCEPT !.tags = tags.val] ELSE m1
                model == IF TruthyDict(metrics)
                         THEN [m2 EXCEPT !.metrics = DictUpdate(@, metrics.val)]
                         ELSE m2
            IN /\ models' = db_update_model(models, model)
               /\ last' = [op |-> "update_model", ok |-> TRUE, id |-> model_id,
                           res |-> model]
       ELSE /\ last' = NotFound("update_model", model_id)
            /\ UNCHANGED models
    /\ UNCHANGED <<datasets, annotations, experiments, nextId, clock, held, conn, exported,
                   callers>>

(* parts = version.split('.'): the third part is raised, or '.1' appended. *)
IncrementedVersion(version) ==
    IF Len(version) = 3 THEN [version EXCEPT ![3] = @ + 1] ELSE Append(version, 1)

increment_version(model_id) ==
    /\ IF model_id \in DOMAIN models
       THEN /\ models[model_id].version[Len(models[model_id].version)] < MaxVersion
            /\ LET model == [models[model_id] EXCEPT !.version = IncrementedVersion(@)]
               IN /\ models' = db_update_model(models, model)
                  /\ last' = [op |-> "increment_version", ok |-> TRUE, id |-> model_id,
                              res |-> model]
       ELSE /\ last' = NotFound("increment_version", model_id)
            /\ UNCHANGED models
    /\ UNCHANGED <<datasets, annotations, experiments, nextId, clock, held, conn, exported,
                   callers>>

(* verify_model_file: file_exists is os.path.exists(model.file_path).  A    *)
(* missing model is reported in the result: nothing is raised.              *)
verify_model_file(model_id, file_exists) ==
    /\ last' = [op |-> "verify_model_file", ok |-> TRUE, id |-> model_id,
                res |-> IF model_id \notin DOMAIN models
                        THEN [exists |-> FALSE, error |-> "Model not found"]
                        ELSE IF file_exists
                             THEN [model_id |-> model_id, exists |-> TRUE]
                             ELSE [model_id |-> model_id, exists |-> FALSE,
                                   error |-> "Model file not found"],
                before |-> Tables]
    /\ UNCHANGED <<datasets, annotations, experiments, models, nextId, clock, held, conn,
                   exported, callers>>

(* str(n) for a version part, as the sequence of its digits. *)
Digits(n) == IF n < 10 THEN <<n>> ELSE <<n \div 10, n % 10>>

(* '.'.join(parts): the characters of the version string, a digit as its   *)
(* value and '.' as -1 ('.' sorts before every digit).                      *)
RECURSIVE VersionString(_)
VersionString(version) ==
    IF version = << >> THEN << >>
    ELSE IF Len(version) = 1 THEN Digits(version[1])
    ELSE Digits(version[1]) \o <<0 - 1>> \o VersionString(Tail(version))

(* a < b for two strings, character by character. *)
RECURSIVE StrLess(_, _)
StrLess(a, b) ==
    IF b = << >> THEN FALSE
    ELSE IF a = << >> THEN TRUE
    ELSE IF Head(a) # Head(b) THEN Head(a) < Head(b)
    ELSE StrLess(Tail(a), Tail(b))

(* get_latest_version: the models named `name`, newest first (ORDER BY      *)
(* created_at DESC), sorted by version string, reverse=True; the first one. *)
LatestVersion(tbl, name) ==
    LET matching == {m \in DOMAIN tbl : tbl[m].name = name}
        Key(m) == VersionString(tbl[m].version)
    IN IF matching = {} THEN NoArg
       ELSE Some(tbl[CHOOSE m \in matching :
                         \A o \in matching \ {m} :
                             \/ StrLess(Key(o), Key(m))
                             \/ Key(o) = Key(m) /\ o < m])

get_latest_version(name) ==
    /\ last' = [op |-> "get_latest_version", ok |-> TRUE, id |-> name,
                res |-> LatestVersion(models, name)]
    /\ UNCHANGED <<datasets, annotations, experiments, models, nextId, clock, held, conn,
                   exported, callers>>

(* ------------------------------ objects read earlier ------------------- *)

Kinds == {"dataset", "annotation", "experiment", "model"}

KindIndex(kind) ==
    CASE kind = "dataset" -> 1
      [] kind = "annotation" -> 2
      [] kind = "experiment" -> 3
      [] kind = "model" -> 4

TableOfKind(kind) == Tables[KindIndex(kind)]

(* db.get_dataset / get_experiment / get_model, or an Annotation out of     *)
(* get_annotations_by_dataset: the caller keeps the object (as the views    *)
(* keep current_experiment).                                                *)
db_get(kind, id) ==
    /\ IF id \in DOMAIN TableOfKind(kind)
       THEN held' = <<[kind |-> kind, obj |-> TableOfKind(kind)[id]]>>
       ELSE held' = held
    /\ last' = [op |-> "db_get", ok |-> TRUE, kind |-> kind, id |-> id,
                res |-> IF id \in DOMAIN TableOfKind(kind)
                        THEN Some(TableOfKind(kind)[id]) ELSE NoArg]
    /\ UNCHANGED <<datasets, annotations, experiments, models, nextId, clock, conn,
                   exported, callers>>

(* The object with the field a view edits changed (ExperimentView            *)
(* ._save_notes: self.current_experiment.notes = notes).                    *)
Edited(kind, obj) ==
    CASE kind = "dataset" -> [obj EXCEPT !.description = "edited"]
      [] kind = "annotation" -> [obj EXCEPT !.label = "edited"]
      [] kind = "experiment" -> [obj EXCEPT !.notes = <<"edited">>]
      [] kind = "model" -> [obj EXCEPT !.notes = "edited"]

(* db.update_dataset / update_annotation / update_experiment / update_model *)
(* with the object held, which may be stale.                                *)
db_update ==
    /\ held # << >>
    /\ LET kind == held[1].kind
           obj == Edited(kind, held[1].obj)
       IN /\ datasets' = IF kind = "dataset"
                         THEN db_update_dataset(datasets, obj) ELSE datasets
          /\ annotations' = IF kind = "annotation"
                            THEN db_update_annotation(annotations, obj) ELSE annotations
          /\ experiments' = IF kind = "experiment"
                            THEN db_update_experiment(experiments, obj) ELSE experiments
          /\ models' = IF kind = "model" THEN db_update_model(models, obj) ELSE models
          /\ last' = [op |-> "db_update", ok |-> TRUE, kind |-> kind, id |-> obj.id,
                      obj |-> obj, before |-> Tables]
    /\ UNCHANGED <<nextId, clock, held, conn, exported, callers>>

(* ---------------- dataset versions: import, refresh, update ------------- *)
NextDatasets ==
    \/ \E kind \in {"missing", "dir", "csv", "json", "txt"}, content \in Contents :
           import_dataset(kind, Some(<<"d">>), content)
    \/ \E d \in DatasetIds : get_dataset(d)
    \/ \E inc \in BOOLEAN : update_dataset(inc)
    \/ \E d \in DatasetIds, content \in Contents : refresh_dataset(d, content)
    \/ \E d \in DatasetIds : delete_dataset(d)

SpecDatasets == Init /\ [][NextDatasets]_vars

(* C1: refresh_dataset on a stored dataset returns and persists the version *)
(* stored before the call plus exactly 1, whether the analysis succeeded or *)
(* failed.                                                                  *)
C1_RefreshIncrementsVersion ==
    (last.op = "refresh_dataset" /\ last.ok) =>
        /\ last.res = last.prev + 1
        /\ StoredVersion(last.id) = last.prev + 1

(* A second refresh (stored version 2 before it) whose analysis failed. *)
C1_Witness ==
    /\ last.op = "refresh_dataset"
    /\ last.ok
    /\ last.failed
    /\ last.prev = 2
    /\ StoredVersion(last.id) = 3

(* C2: every refresh_dataset and every update_dataset(increment_version =   *)
(* True) on a stored dataset leaves the persisted version exactly 1 above   *)
(* the version persisted before the call, so it never decreases or repeats, *)
(* also when the object passed to update_dataset was read earlier.          *)
C2_PersistedVersionMonotonic ==
    ( \/ (last.op = "refresh_dataset" /\ last.ok)
      \/ (last.op = "update_dataset" /\ last.increment_version /\ last.prev # None) ) =>
        StoredVersion(last.id) = last.prev + 1

(* ------------- record store: create and delete of the four kinds -------- *)
(* Items are labelled first (at time 1), then experiments are created. *)
NextStore ==
    \/ \E kind \in {"csv"}, content \in {Parsed(1, << >>)} :
           import_dataset(kind, NoArg, content)
    \/ \E d \in DatasetIds : clock = 1 /\ add_label(d, 0, "", "cat", NoArg, NoArg)
    \/ \E d \in {1} : create_experiment(d, "rf", << >>)
    \/ \E e \in ExperimentIds : register_model("m", e, DefaultVersion)
    \/ \E d \in DatasetIds : delete_dataset(d)
    \/ \E a \in AnnotationIds : delete_annotation(a)
    \/ \E e \in ExperimentIds : delete_experiment(e)
    \/ \E m \in ModelIds : delete_model(m)

SpecStore == Init /\ [][NextStore]_vars

(* C3: after delete_dataset(D) on an existing dataset D, no annotation with *)
(* dataset_id D is left and D itself is not found.                          *)
C3_DeleteDatasetCascades ==
    (last.op = "delete_dataset" /\ last.prev) =>
        /\ {a \in DOMAIN annotations : annotations[a].dataset_id = last.id} = {}
        /\ last.id \notin DOMAIN datasets

(* An existing dataset that had two annotations was deleted. *)
C3_Witness ==
    /\ last.op = "delete_dataset"
    /\ last.prev
    /\ Cardinality(last.children) = 2

(* C4: after delete_experiment(E) on an existing experiment E, no model     *)
(* with experiment_id E is left, none of E's former models is found, and E  *)
(* itself is not found.                                                     *)
C4_DeleteExperimentCascades ==
    (last.op = "delete_experiment" /\ last.prev) =>
        /\ {m \in DOMAIN models : models[m].experiment_id = last.id} = {}
        /\ \A m \in last.children : m \notin DOMAIN models
        /\ last.id \notin DOMAIN experiments

(* An existing experiment that had two models was deleted. *)
C4_Witness ==
    /\ last.op = "delete_experiment"
    /\ last.prev
    /\ Cardinality(last.children) = 2

DeleteOps == {"delete_dataset", "delete_experiment", "delete_model", "delete_annotation"}

TableOf(op) ==
    CASE op = "delete_dataset" -> datasets
      [] op = "delete_experiment" -> experiments
      [] op = "delete_model" -> models
      [] op = "delete_annotation" -> annotations

(* C6: for each of the four kinds, delete by id returns true exactly when a *)
(* row with that id existed before the call, and afterwards no row has it.  *)
C6_DeleteReportsExistence ==
    (last.op \in DeleteOps) =>
        /\ last.res = last.prev
        /\ last.id \notin DOMAIN TableOf(last.op)

(* A dataset without annotations was deleted (true), and a delete of a      *)
(* dataset id that has orphan annotations but no row (false).               *)
C6_Witness ==
    /\ last.op = "delete_dataset"
    /\ last.prev
    /\ last.children = {}
    /\ last.res

C6_WitnessFalse ==
    /\ last.op = "delete_dataset"
    /\ ~last.prev
    /\ last.children # {}
    /\ ~last.res

(* ------------- a cascade delete, statement by statement ---------------- *)
(* get_connection: sqlite3.connect opens a transaction before the first    *)
(* DELETE; the with-body's statements change the connection's own view;    *)
(* conn.commit() after the body publishes them, conn.rollback() in the     *)
(* except branch discards them.  The tables are what is committed, which   *)
(* is what any other connection reads.                                     *)
CascadeOps == {"delete_dataset", "delete_experiment"}

ChildTable(op) == IF op = "delete_dataset" THEN annotations ELSE models

ParentTable(op) == IF op = "delete_dataset" THEN datasets ELSE experiments

ChildrenOf(op, tbl, id) ==
    IF op = "delete_dataset" THEN DatasetChildren(tbl, id) ELSE ExperimentChildren(tbl, id)

(* What is committed of a table once a statement has run on the open       *)
(* connection: the rows committed before, until conn.commit().             *)
CommittedAfterStatement_Autocommit(committed, working) == working

CommittedAfterStatement(committed, working) == committed

connect(op, id) ==
    /\ conn.pc = "closed"
    /\ conn' = [pc |-> "open", op |-> op, id |-> id, statement |-> 0,
                children |-> ChildTable(op), parent |-> ParentTable(op),
                rowcount |-> None]
    /\ last' = [op |-> "connect", ok |-> TRUE, id |-> id]
    /\ UNCHANGED <<datasets, annotations, experiments, models, nextId, clock, held, exported,
                   callers>>

Publish(op, children, parent) ==
    IF op = "delete_dataset"
    THEN /\ annotations' = children
         /\ datasets' = parent
         /\ UNCHANGED <<experiments, models>>
    ELSE /\ models' = children
         /\ experiments' = parent
         /\ UNCHANGED <<datasets, annotations>>

(* cursor.execute('DELETE FROM <children> WHERE <parent>_id = ?') and then  *)
(* cursor.execute('DELETE FROM <parents> WHERE id = ?')                     *)
execute ==
    /\ conn.pc = "open"
    /\ conn.statement \in {0, 1}
    /\ LET deleted == IF conn.statement = 0
                      THEN ExecDelete(conn.children,
                                      ChildrenOf(conn.op, conn.children, conn.id))
                      ELSE ExecDelete(conn.parent, {conn.id})
           next == IF conn.statement = 0
                   THEN [conn EXCEPT !.children = deleted.rows,
                                     !.rowcount = deleted.rowcount, !.statement = 1]
                   ELSE [conn EXCEPT !.parent = deleted.rows,
                                     !.rowcount = deleted.rowcount, !.statement = 2]
       IN /\ conn' = next
          /\ Publish(conn.op,
                     CommittedAfterStatement(ChildTable(conn.op), next.children),
                     CommittedAfterStatement(ParentTable(conn.op), next.parent))
          /\ last' = [op |-> "execute", ok |-> TRUE, id |-> conn.id]
    /\ UNCHANGED <<nextId, clock, held, exported, callers>>

(* `return cursor.rowcount > 0` leaves the with-body: conn.commit(). *)
commit ==
    /\ conn.pc = "open"
    /\ conn.statement = 2
    /\ Publish(conn.op, conn.children, conn.parent)
    /\ conn' = Closed
    /\ last' = [op |-> conn.op, ok |-> TRUE, id |-> conn.id,
                res |-> conn.rowcount > 0]
    /\ UNCHANGED <<nextId, clock, held, exported, callers>>

(* A statement or the commit raises (disk full, database locked, ...):      *)
(* `except Exception: conn.rollback(); raise`.                              *)
raise_and_rollback ==
    /\ conn.pc = "open"
    /\ conn' = Closed
    /\ last' = [op |-> conn.op, ok |-> FALSE, id |-> conn.id,
                statement |-> conn.statement]
    /\ UNCHANGED <<datasets, annotations, experiments, models, nextId, clock, held, exported,
                   callers>>

NextTxn ==
    \/ /\ conn.pc = "closed"
       /\ \/ \E kind \in {"csv"}, content \in {Parsed(1, << >>)} :
                 import_dataset(kind, NoArg, content)
          \/ \E d \in DatasetIds : clock = 1 /\ add_label(d, 0, "", "cat", NoArg, NoArg)
          \/ \E d \in {1} : create_experiment(d, "rf", << >>)
          \/ \E e \in ExperimentIds : register_model("m", e, DefaultVersion)
    \/ \E d \in DatasetIds : connect("delete_dataset", d)
    \/ \E e \in ExperimentIds : connect("delete_experiment", e)
    \/ execute
    \/ commit
    \/ raise_and_rollback

SpecTxn == Init /\ [][NextTxn]_vars

(* C5: a cascade delete is atomic.  While its connection is open the        *)
(* committed tables (what any reader sees) change in one step at most; that *)
(* step is the successful end of the call and removes the parent row and    *)
(* all its children together.  A call that fails therefore leaves every     *)
(* table as it was before the call.                                         *)
C5_CascadeAtomic ==
    [][ (conn.pc = "open" /\ Tables' # Tables) =>
            LET op == conn.op
                id == conn.id
                children == IF op = "delete_dataset" THEN annotations ELSE models
                parent == IF op = "delete_dataset" THEN datasets ELSE experiments
                childrenNext == IF op = "delete_dataset" THEN annotations' ELSE models'
                parentNext == IF op = "delete_dataset" THEN datasets' ELSE experiments'
                kept == {c \in DOMAIN children :
                             IF op = "delete_dataset"
                             THEN children[c].dataset_id # id
                             ELSE children[c].experiment_id # id}
            IN /\ conn'.pc = "closed"
               /\ last'.ok
               /\ childrenNext = Restrict(children, kept)
               /\ parentNext = Restrict(parent, DOMAIN parent \ {id})
      ]_vars

(* delete_dataset of a stored dataset with an annotation failed after the   *)
(* first DELETE had run: the dataset and its annotation are both there.     *)
C5_Witness ==
    /\ last.op = "delete_dataset"
    /\ ~last.ok
    /\ last.statement >= 1
    /\ last.id \in DOMAIN datasets
    /\ \E a \in DOMAIN annotations : annotations[a].dataset_id = last.id

(* ---------------------- the life of an experiment ----------------------- *)
NextExperiments ==
    \/ \E d \in {1} : create_experiment(d, "rf", << >>)
    \/ \E e \in ExperimentIds : start_experiment(e)
    \/ \E e \in ExperimentIds, metrics \in {[acc |-> 1], [acc |-> 2, f1 |-> 1]} :
           log_metrics(e, metrics)
    \/ \E e \in ExperimentIds, metrics \in {NoArg, Some(<< >>), Some([acc |-> 3])},
          notes \in {<< >>, <<"done">>} :
           complete_experiment(e, metrics, 5, notes)
    \/ \E e \in ExperimentIds : fail_experiment(e, "boom")
    \/ \E e \in ExperimentIds : delete_experiment(e)

SpecExperiments == Init /\ [][NextExperiments]_vars

ForwardTransitions ==
    {<<"created", "running">>, <<"running", "completed">>, <<"running", "failed">>}

(* C7: an experiment starts as created, and its status only ever changes    *)
(* created -> running, running -> completed or running -> failed.           *)
C7_StatusForwardOnly ==
    [][ /\ \A e \in DOMAIN experiments' \ DOMAIN experiments :
               experiments'[e].status = "created"
        /\ \A e \in DOMAIN experiments \cap DOMAIN experiments' :
               experiments'[e].status # experiments[e].status =>
                   <<experiments[e].status, experiments'[e].status>> \in ForwardTransitions
      ]_vars

(* ------------------- the comparator: best, compare, search ------------- *)
(* The three queries only read the store.  Each is applied once to every   *)
(* store of a bounded family (last = Idle: no query has been made yet).     *)
(* SELECT ... ORDER BY timestamp DESC over the rows `ids` of the table. *)
RECURSIVE OrderByTimestampDesc(_, _)
OrderByTimestampDesc(tbl, ids) ==
    IF ids = {}
    THEN << >>
    ELSE LET top == CHOOSE e \in ids : \A f \in ids : tbl[f].timestamp <= tbl[e].timestamp
         IN <<tbl[top]>> \o OrderByTimestampDesc(tbl, ids \ {top})

db_get_all_experiments(tbl) == OrderByTimestampDesc(tbl, DOMAIN tbl)

db_get_experiments_by_dataset(tbl, dataset_id) ==
    OrderByTimestampDesc(tbl, {e \in DOMAIN tbl : tbl[e].dataset_id = dataset_id})

(* The comparison that replaces the running best. *)
Better_OrEqual(value, best_value, higher_is_better) ==
    IF higher_is_better THEN value >= best_value ELSE value <= best_value

Better(value, best_value, higher_is_better) ==
    IF higher_is_better THEN value > best_value ELSE value < best_value

(* `if exp.status != 'completed': continue` and `if value is None: continue` *)
Qualifies(exp, metric) ==
    exp.status = "completed" /\ DictGet(exp.metrics, metric) # None

(* The loop of get_best_experiment from position i on, with the running best. *)
RECURSIVE BestLoop(_, _, _, _, _)
BestLoop(exps, i, metric, higher_is_better, best) ==
    IF i > Len(exps)
    THEN best
    ELSE LET exp == exps[i]
             value == DictGet(exp.metrics, metric)
             next == IF ~Qualifies(exp, metric)
                     THEN best
                     ELSE IF best.value = None
                          THEN [exp |-> exp.id, value |-> value]
                          ELSE IF Better(value, best.value, higher_is_better)
                               THEN [exp |-> exp.id, value |-> value]
                               ELSE best
         IN BestLoop(exps, i + 1, metric, higher_is_better, next)

(* The id of the experiment returned, None for None. *)
BestExperiment(tbl, dataset_id, metric, higher_is_better) ==
    BestLoop(db_get_experiments_by_dataset(tbl, dataset_id), 1, metric, higher_is_better,
             [exp |-> None, value |-> None]).exp

get_best_experiment(dataset_id, metric, higher_is_better) ==
    /\ last' = [op |-> "get_best_experiment", ok |-> TRUE, dataset_id |-> dataset_id,
                metric |-> metric, higher_is_better |-> higher_is_better,
                res |-> BestExperiment(experiments, dataset_id, metric, higher_is_better)]
    /\ UNCHANGED <<datasets, annotations, experiments, models, nextId, clock, held, conn, exported,
                   callers>>

(* The experiments compare_experiments resolves, in the order of the ids. *)
RECURSIVE Resolve(_, _)
Resolve(tbl, experiment_ids) ==
    IF experiment_ids = << >>
    THEN << >>
    ELSE LET rest == Resolve(tbl, Tail(experiment_ids))
         IN IF Head(experiment_ids) \in DOMAIN tbl
            THEN <<tbl[Head(experiment_ids)]>> \o rest
            ELSE rest

Comparison(tbl, experiment_ids) ==
    LET exps == Resolve(tbl, experiment_ids)
        ids == {exps[i].id : i \in 1..Len(exps)}
        all_metrics == UNION {DOMAIN exps[i].metrics : i \in 1..Len(exps)}
        all_params == UNION {DOMAIN exps[i].parameters : i \in 1..Len(exps)}
    IN IF exps = << >>
       THEN [experiments |-> << >>, metrics |-> << >>, parameters |-> << >>]
       ELSE [experiments |->
                 [i \in 1..Len(exps) |->
                      [id |-> exps[i].id, model_type |-> exps[i].model_type,
                       status |-> exps[i].status, timestamp |-> exps[i].timestamp]],
             metrics |->
                 [metric \in all_metrics |-> [e \in ids |-> DictGet(tbl[e].metrics, metric)]],
             parameters |->
                 [param \in all_params |-> [e \in ids |-> DictGet(tbl[e].parameters, param)]]]

compare_experiments(experiment_ids) ==
    /\ last' = [op |-> "compare_experiments", ok |-> TRUE, ids |-> experiment_ids,
                res |-> Comparison(experiments, experiment_ids)]
    /\ UNCHANGED <<datasets, annotations, experiments, models, nextId, clock, held, conn, exported,
                   callers>>

(* One experiment against the filters of search_experiments. *)
PassesMinMetric_Any(exp, min_metric) ==
    \E metric \in DOMAIN min_metric :
        ~(DictGetOr(exp.metrics, metric, 0) < min_metric[metric])

PassesMinMetric(exp, min_metric) ==
    \A metric \in DOMAIN min_metric :
        ~(DictGetOr(exp.metrics, metric, 0) < min_metric[metric])

Matches(exp, model_type, status, tags, min_metric) ==
    /\ ~(TruthyStr(model_type) /\ exp.model_type # model_type.val)
    /\ ~(TruthyStr(status) /\ exp.status # status.val)
    /\ ~(TruthyList(tags) /\ ~(\E i \in 1..Len(tags.val) : tags.val[i] \in Range(exp.tags)))
    /\ ~(TruthyDict(min_metric) /\ ~PassesMinMetric(exp, min_metric.val))

RECURSIVE SearchLoop(_, _, _, _, _)
SearchLoop(exps, model_type, status, tags, min_metric) ==
    IF exps = << >>
    THEN << >>
    ELSE LET rest == SearchLoop(Tail(exps), model_type, status, tags, min_metric)
         IN IF Matches(Head(exps), model_type, status, tags, min_metric)
            THEN <<Head(exps).id>> \o rest
            ELSE rest

search_experiments(model_type, status, tags, min_metric) ==
    /\ last' = [op |-> "search_experiments", ok |-> TRUE, model_type |-> model_type,
                status |-> status, tags |-> tags, min_metric |-> min_metric,
                res |-> SearchLoop(db_get_all_experiments(experiments),
                                   model_type, status, tags, min_metric)]
    /\ UNCHANGED <<datasets, annotations, experiments, models, nextId, clock, held, conn, exported,
                   callers>>

(* A store of n experiments, as create/start/log/complete/fail calls leave  *)
(* it: ids 1..n, every row drawn from `rows`, no two timestamps equal.      *)
ExperimentTables(rows, n) ==
    {tbl \in [1..n -> rows] :
         /\ \A e \in 1..n : tbl[e].id = e
         /\ \A e, f \in 1..n : e # f => tbl[e].timestamp # tbl[f].timestamp}

ExperimentRows(ids, dataset_ids, model_types, statuses, tagss, metricss, parameterss, timestamps) ==
    [id : ids, dataset_id : dataset_ids, model_type : model_types, parameters : parameterss,
     metrics : metricss, timestamp : timestamps, status : statuses,
     duration_seconds : {0}, notes : {<< >>}, tags : tagss]

InitStore(tables) ==
    /\ datasets = << >>
    /\ annotations = << >>
    /\ models = << >>
    /\ held = << >>
    /\ conn = Closed
    /\ exported = << >>
    /\ callers = [c \in CallerIds |-> [pc |-> "idle"]]
    /\ last = Idle
    /\ experiments \in tables
    /\ clock = Len(experiments) + 1
    /\ nextId = [dataset |-> 1, annotation |-> 1, experiment |-> Len(experiments) + 1,
                 model |-> 1]

BestTables(n) ==
    ExperimentTables(
        ExperimentRows(1..n, {1, 2}, {"rf"}, Statuses, {<< >>},
                       {<< >>, [acc |-> 1], [acc |-> 2]}, {<< >>}, 1..n), n)

InitBest == InitStore(UNION {BestTables(n) : n \in 0..MaxListed})

NextBest ==
    /\ last = Idle
    /\ \E d \in {1, 2}, metric \in {"acc", "f1"}, higher_is_better \in BOOLEAN :
           get_best_experiment(d, metric, higher_is_better)

SpecBest == InitBest /\ [][NextBest]_vars

(* C8: get_best_experiment returns the first experiment, in the listing     *)
(* order of the dataset's experiments, among those that are completed and   *)
(* have a value for the metric and whose value is the maximum (minimum when *)
(* lower is better) over them; None exactly when there is none.             *)
C8_BestIsFirstExtreme ==
    (last.op = "get_best_experiment") =>
        LET listing == db_get_experiments_by_dataset(experiments, last.dataset_id)
            qualifying == {i \in 1..Len(listing) :
                               /\ listing[i].status = "completed"
                               /\ last.metric \in DOMAIN listing[i].metrics}
            value(i) == listing[i].metrics[last.metric]
            extreme == {i \in qualifying :
                            \A j \in qualifying :
                                IF last.higher_is_better
                                THEN value(i) >= value(j)
                                ELSE value(i) <= value(j)}
        IN IF qualifying = {}
           THEN last.res = None
           ELSE /\ last.res # None
                /\ \E i \in extreme :
                       /\ listing[i].id = last.res
                       /\ \A j \in extreme : i <= j

(* Two completed experiments tie on the best value and a running one, first *)
(* in the listing, has a value too: the earlier of the two completed wins.  *)
C8_Witness ==
    /\ last.op = "get_best_experiment"
    /\ last.res # None
    /\ \E e \in DOMAIN experiments :
           /\ e # last.res
           /\ experiments[e].dataset_id = last.dataset_id
           /\ experiments[e].status = "completed"
           /\ last.metric \in DOMAIN experiments[e].metrics
           /\ experiments[e].metrics[last.metric] = experiments[last.res].metrics[last.metric]
           /\ experiments[e].timestamp < experiments[last.res].timestamp

(* The winner is not the first of the listing: an experiment that is not    *)
(* completed, with a value at least as good, is listed before it.           *)
C8_WitnessExcluded ==
    /\ last.op = "get_best_experiment"
    /\ last.res # None
    /\ last.higher_is_better
    /\ \E e \in DOMAIN experiments :
           /\ experiments[e].dataset_id = last.dataset_id
           /\ experiments[e].status = "running"
           /\ last.metric \in DOMAIN experiments[e].metrics
           /\ experiments[e].metrics[last.metric] > experiments[last.res].metrics[last.metric]

CompareTables(n) ==
    ExperimentTables(
        ExperimentRows(1..n, {1}, {"rf"}, {"completed"}, {<< >>},
                       {<< >>, [acc |-> 1], [acc |-> 2], [f1 |-> 1], [acc |-> 2, f1 |-> 1]},
                       {<< >>, [lr |-> 1]}, 1..n), n)

InitCompare == InitStore(UNION {CompareTables(n) : n \in 0..MaxListed})

(* Lists of at most MaxCompared ids, stored or not, repeated or not. *)
IdLists == UNION {[1..k -> 1..(MaxListed + 1)] : k \in 0..MaxCompared}

NextCompare ==
    /\ last = Idle
    /\ \E experiment_ids \in IdLists : compare_experiments(experiment_ids)

SpecCompare == InitCompare /\ [][NextCompare]_vars

(* C9: compare_experiments never fails on unknown ids: they are dropped;    *)
(* the metric keys are the union of the metric names of the resolved        *)
(* experiments, each mapping every resolved id to its value or to null;     *)
(* likewise the parameters; with nothing resolved the report is empty.      *)
C9_CompareReport ==
    (last.op = "compare_experiments") =>
        LET resolved == {e \in Range(last.ids) : e \in DOMAIN experiments}
            report == last.res
        IN /\ last.ok
           /\ {report.experiments[i].id : i \in 1..Len(report.experiments)} = resolved
           /\ DOMAIN report.metrics = UNION {DOMAIN experiments[e].metrics : e \in resolved}
           /\ DOMAIN report.parameters =
                  UNION {DOMAIN experiments[e].parameters : e \in resolved}
           /\ \A metric \in DOMAIN report.metrics :
                  /\ DOMAIN report.metrics[metric] = resolved
                  /\ \A e \in resolved :
                         report.metrics[metric][e] =
                             IF metric \in DOMAIN experiments[e].metrics
                             THEN experiments[e].metrics[metric]
                             ELSE None
           /\ \A param \in DOMAIN report.parameters :
                  /\ DOMAIN report.parameters[param] = resolved
                  /\ \A e \in resolved :
                         report.parameters[param][e] =
                             IF param \in DOMAIN experiments[e].parameters
                             THEN experiments[e].parameters[param]
                             ELSE None
           /\ resolved = {} =>
                  report = [experiments |-> << >>, metrics |-> << >>, parameters |-> << >>]

(* compare([e1, e2, missing]) with e1 = {acc} and e2 = {f1}: two resolved,  *)
(* the id without a row dropped, a null in each metric's row.               *)
C9_Witness ==
    /\ last.op = "compare_experiments"
    /\ \E i \in 1..Len(last.ids) : last.ids[i] \notin DOMAIN experiments
    /\ Len(last.res.experiments) = 2
    /\ DOMAIN last.res.metrics = {"acc", "f1"}
    /\ \E e \in DOMAIN experiments : last.res.metrics["acc"][e] = None
    /\ \E e \in DOMAIN experiments : last.res.metrics["f1"][e] = None

SearchTables(n) ==
    ExperimentTables(
        ExperimentRows(1..n, {1}, {"rf", "lr"}, {"running", "completed"},
                       {<<"a">>, <<"b">>},
                       {<< >>, [acc |-> 2], [acc |-> 2, f1 |-> 1]}, {<< >>}, 1..n), n)

InitSearch ==
    /\ InitStore(UNION {SearchTables(n) : n \in 0..MaxListed})
    /\ \A e \in DOMAIN experiments : experiments[e].timestamp = e

NextSearch ==
    /\ last = Idle
    /\ \E model_type \in {NoArg, Some(""), Some("rf")},
          status \in {NoArg, Some("completed")},
          tags \in {NoArg, Some(<< >>), Some(<<"c", "a">>)},
          min_metric \in {NoArg, Some([acc |-> 0]), Some([acc |-> 1, f1 |-> 1]),
                          Some([acc |-> 3])} :
           search_experiments(model_type, status, tags, min_metric)

SpecSearch == InitSearch /\ [][NextSearch]_vars

(* A filter is supplied when it is passed and not empty. *)
Supplied(arg, empty) == arg.given /\ arg.val # empty

(* C10: search_experiments returns exactly the stored experiments that      *)
(* satisfy all supplied filters together: model_type equal, status equal,   *)
(* one of the supplied tags among the experiment's tags, and every metric   *)
(* of min_metric at least its threshold, a missing metric counting as 0; a  *)
(* filter that is omitted (or empty) excludes nothing.                      *)
C10_SearchIsConjunction ==
    (last.op = "search_experiments") =>
        /\ Range(last.res) =
               {e \in DOMAIN experiments :
                    /\ Supplied(last.model_type, "") =>
                           experiments[e].model_type = last.model_type.val
                    /\ Supplied(last.status, "") =>
                           experiments[e].status = last.status.val
                    /\ Supplied(last.tags, << >>) =>
                           Range(last.tags.val) \cap Range(experiments[e].tags) # {}
                    /\ Supplied(last.min_metric, << >>) =>
                           \A metric \in DOMAIN last.min_metric.val :
                               (IF metric \in DOMAIN experiments[e].metrics
                                THEN experiments[e].metrics[metric]
                                ELSE 0) >= last.min_metric.val[metric]}
        /\ \A i, j \in 1..Len(last.res) : i # j => last.res[i] # last.res[j]

(* All four filters supplied: one experiment passes them all, another has   *)
(* the right type, status and tag and fails only the threshold of a metric  *)
(* it lacks.                                                                *)
C10_Witness ==
    /\ last.op = "search_experiments"
    /\ last.model_type = Some("rf")
    /\ last.status = Some("completed")
    /\ last.tags = Some(<<"c", "a">>)
    /\ last.min_metric = Some([acc |-> 1, f1 |-> 1])
    /\ Len(last.res) = 1
    /\ \E e \in DOMAIN experiments \ Range(last.res) :
           /\ experiments[e].model_type = "rf"
           /\ experiments[e].status = "completed"
           /\ experiments[e].tags = <<"a">>
           /\ experiments[e].metrics = [acc |-> 2]

(* A missing metric counts as 0: an experiment without metrics passes the   *)
(* threshold 0.                                                             *)
C10_WitnessMissingIsZero ==
    /\ last.op = "search_experiments"
    /\ last.min_metric = Some([acc |-> 0])
    /\ \E i \in 1..Len(last.res) : experiments[last.res[i]].metrics = << >>

(* ---------------- annotations: export, then import ---------------------- *)
(* Dataset 1 is labelled, exported once in either format, and the file is   *)
(* imported into dataset 2.                                                 *)
TagLists ==
    {<< >>, << <<"a">> >>, << <<"a">>, <<"b">> >>, << <<"a", ";", "b">> >>,
     << <<" ", "a">> >>, << << >> >>}

NextRoundTrip ==
    \/ /\ exported = << >>
       /\ \E item_index \in {0, 1}, label \in {"cat", ""},
             tags \in {NoArg} \cup {Some(t) : t \in TagLists} :
              add_label(1, item_index, "", label, tags, NoArg)
    \/ /\ exported = << >>
       /\ \E format \in Formats : export_annotations(1, format)
    \/ \E format \in Formats : import_annotations(2, format)

SpecRoundTrip == Init /\ [][NextRoundTrip]_vars

(* How often each (item_index, label, tags) occurs among a dataset's annotations. *)
TripleBag(tbl, dataset_id) ==
    LET ids == {a \in DOMAIN tbl : tbl[a].dataset_id = dataset_id}
        triple(a) == <<tbl[a].item_index, tbl[a].label, tbl[a].tags>>
    IN [t \in {triple(a) : a \in ids} |-> Cardinality({a \in ids : triple(a) = t})]

(* C11: importing the file export_annotations wrote for dataset 1, in the   *)
(* format it was written in, into the empty dataset 2 gives dataset 2 the   *)
(* same multiset of (item_index, label, tags) as dataset 1 has, whatever    *)
(* the labels and the tags.                                                 *)
C11_ExportImportRoundTrip ==
    (last.op = "import_annotations" /\ last.ok /\ last.empty
         /\ exported[1].format = last.format) =>
        TripleBag(annotations, 2) = TripleBag(annotations, 1)

(* ---------------- datasets: import and analysis of the source ----------- *)
(* One dataset at a time is imported from any kind of path and source,      *)
(* refreshed over any source, and deleted.                                  *)
Columns ==
    {<< >>, <<[name |-> "a", dtype |-> "int64"]>>,
     <<[name |-> "a", dtype |-> "int64"], [name |-> "b", dtype |-> "object"]>>}

FileSources == {Unreadable} \cup {Parsed(r, c) : r \in 0..MaxRows, c \in Columns}

FileEntries ==
    {[class |-> "root", ext |-> "jpg"], [class |-> "cat", ext |-> "JPG"],
     [class |-> "cat", ext |-> "txt"], [class |-> "dog", ext |-> "Png"]}

DirSources == {Directory(files) : files \in UNION {[1..n -> FileEntries] : n \in 0..MaxFiles}}

(* What can be found at a path of this kind; nothing is read at a path    *)
(* that is missing or has an unsupported extension.                       *)
SourcesAt(kind) ==
    IF kind = "dir" THEN DirSources
    ELSE IF kind = "missing" \/ DatasetType(kind) = "unsupported" THEN {Unreadable}
    ELSE FileSources

NextAnalysis ==
    \/ \E kind \in PathKinds, name \in {NoArg, Some(<<"mine">>)} :
           \E content \in SourcesAt(kind) :
               /\ DOMAIN datasets = {} \/ kind = "missing" \/ DatasetType(kind) = "unsupported"
               /\ import_dataset(kind, name, content)
    \/ \E d \in DatasetIds :
           \E content \in IF d \notin DOMAIN datasets THEN {Unreadable}
                           ELSE IF datasets[d].type = "images" THEN DirSources
                           ELSE FileSources :
               refresh_dataset(d, content)
    \/ \E d \in DatasetIds : delete_dataset(d)

SpecAnalysis == Init /\ [][NextAnalysis]_vars

Stats(dataset) == <<dataset.row_count, dataset.column_count, dataset.schema>>

(* C13: import_dataset raises and stores nothing when the path is missing   *)
(* (FileNotFoundError) or is a file whose extension, compared without       *)
(* regard to case, is none of csv, tsv, json, jsonl (ValueError); otherwise *)
(* it stores exactly one new dataset, of version 1, of type images for a    *)
(* directory, csv for csv/tsv and json for json/jsonl, named as supplied or *)
(* else by the base name of the path.                                       *)
C13_ImportDataset ==
    (last.op = "import_dataset") =>
        LET ext == Lower(last.kind)
        IN IF last.kind = "missing"
           THEN ~last.ok /\ last.raised = "FileNotFoundError" /\ datasets = last.before
           ELSE IF last.kind # "dir" /\ ext \notin {"csv", "tsv", "json", "jsonl"}
                THEN ~last.ok /\ last.raised = "ValueError" /\ datasets = last.before
                ELSE /\ last.ok
                     /\ last.id \notin DOMAIN last.before
                     /\ DOMAIN datasets = DOMAIN last.before \cup {last.id}
                     /\ \A d \in DOMAIN last.before : datasets[d] = last.before[d]
                     /\ datasets[last.id].version = 1
                     /\ datasets[last.id].type =
                            (IF last.kind = "dir" THEN "images"
                             ELSE IF ext \in {"csv", "tsv"} THEN "csv" ELSE "json")
                     /\ datasets[last.id].name =
                            (IF last.name.given THEN last.name.val ELSE basename(last.kind))

(* data.CSV imported without a name: a csv dataset named data.CSV. *)
C13_Witness ==
    /\ last.op = "import_dataset"
    /\ last.ok
    /\ last.kind = "CSV"
    /\ ~last.name.given
    /\ datasets[last.id].type = "csv"
    /\ datasets[last.id].name = <<"data", ".", "CSV">>

(* data.txt is refused while a dataset is stored: the store keeps just it. *)
C13_WitnessUnsupported ==
    /\ last.op = "import_dataset"
    /\ ~last.ok
    /\ last.kind = "txt"
    /\ DOMAIN datasets # {}

(* C14: when the source does not parse during import_dataset or             *)
(* refresh_dataset of a csv or json dataset, the call does not raise, the   *)
(* description becomes the error message, row_count, column_count and       *)
(* schema keep the values they had before the analysis, and the dataset is  *)
(* stored (import) or updated (refresh, with its version raised).           *)
C14_AnalysisFailSoft ==
    /\ (last.op = "import_dataset" /\ last.kind # "missing"
            /\ DatasetType(last.kind) \in {"csv", "json"} /\ ~last.content.parses) =>
           last.ok /\ last.failed
    /\ (last.op = "refresh_dataset" /\ last.prev # None
            /\ last.analyzed.type \in {"csv", "json"} /\ ~last.content.parses) =>
           last.ok /\ last.failed
    /\ (last.op \in {"import_dataset", "refresh_dataset"} /\ last.ok /\ last.failed) =>
           /\ last.id \in DOMAIN datasets
           /\ datasets[last.id].description = ErrorDescription
           /\ Stats(datasets[last.id]) = Stats(last.analyzed)
           /\ datasets[last.id].version =
                  (IF last.op = "import_dataset" THEN 1 ELSE last.analyzed.version + 1)

(* A dataset with one row and two columns is refreshed over a source that   *)
(* no longer parses.                                                        *)
C14_Witness ==
    /\ last.op = "refresh_dataset"
    /\ last.ok
    /\ last.failed
    /\ last.analyzed.description = ""
    /\ datasets[last.id].row_count = 1
    /\ datasets[last.id].column_count = 2

(* An import of a source that does not parse. *)
C14_WitnessImport ==
    /\ last.op = "import_dataset"
    /\ last.ok
    /\ last.failed
    /\ last.id \in DOMAIN datasets

ParsesOk(type, content) == type = "images" \/ content.parses

(* C15: whenever the source parses, the row_count, column_count and schema  *)
(* stored by refresh_dataset are those of the content alone (what analysing *)
(* a new dataset of that content gives: an empty json array gives           *)
(* row_count 0 whatever was stored), and a refresh that follows an import   *)
(* or refresh of the same dataset over the same content stores the same     *)
(* row_count, column_count and schema again.                                *)
C15_AnalyzeDependsOnContentOnly ==
    [][ (last'.op = "refresh_dataset" /\ last'.ok
             /\ ParsesOk(last'.analyzed.type, last'.content)) =>
            LET id == last'.id
                fresh == NewDataset(id, datasets[id].name, datasets[id].type)
            IN /\ Stats(datasets'[id]) = Stats(analyze_dataset(fresh, last'.content))
               /\ (last.op \in {"import_dataset", "refresh_dataset"} /\ last.ok
                       /\ last.id = id /\ last.content = last'.content) =>
                      Stats(datasets'[id]) = Stats(datasets[id])
      ]_vars

RECURSIVE SumValues(_)
SumValues(d) ==
    IF DOMAIN d = {}
    THEN 0
    ELSE LET k == CHOOSE k \in DOMAIN d : TRUE
         IN d[k] + SumValues(Restrict(d, DOMAIN d \ {k}))

(* C16: every stored images dataset has sum(schema.values()) = row_count,   *)
(* len(schema) = column_count and every count at least 1; after an import   *)
(* or refresh of it, row_count is the number of files whose extension,      *)
(* lowercased, is an image extension, and schema counts them per class.     *)
C16_ImageSchema ==
    /\ \A d \in DOMAIN datasets :
           datasets[d].type = "images" =>
               /\ SumValues(datasets[d].schema) = datasets[d].row_count
               /\ Cardinality(DOMAIN datasets[d].schema) = datasets[d].column_count
               /\ \A c \in DOMAIN datasets[d].schema : datasets[d].schema[c] >= 1
    /\ (last.op \in {"import_dataset", "refresh_dataset"} /\ last.ok
            /\ last.analyzed.type = "images") =>
           LET files == last.content.files
               images == {i \in 1..Len(files) :
                              \E ext \in SUPPORTED_IMAGE_EXTENSIONS :
                                  Lower(files[i].ext) = ext}
               schema == datasets[last.id].schema
           IN /\ datasets[last.id].row_count = Cardinality(images)
              /\ DOMAIN schema = {files[i].class : i \in images}
              /\ \A c \in DOMAIN schema :
                     schema[c] = Cardinality({i \in images : files[i].class = c})

(* A folder with cat/x.JPG and cat/notes.txt: one image, one class. *)
C16_Witness ==
    /\ last.op = "import_dataset"
    /\ last.ok
    /\ last.content.files = <<[class |-> "cat", ext |-> "JPG"], [class |-> "cat", ext |-> "txt"]>>
    /\ datasets[last.id].row_count = 1
    /\ datasets[last.id].schema = [cat |-> 1]

(* ------------------------ the target column ----------------------------- *)
(* A dataset of each type is imported, read, and its target column detected *)
(* once over every source of a bounded family of column lists.              *)
ColumnNames ==
    {<<"i", "d">>, <<"a", "g", "e">>, <<"T", "a", "r", "g", "e", "t", "_", "L", "a", "b", "e", "l">>,
     <<"i", "n", "c", "o", "m", "e">>, <<"c", "i", "t", "y">>, <<"l", "a", "b", "e", "l">>, <<"Y">>}

ColumnLists ==
    {cols \in UNION {[1..n -> ColumnNames] : n \in 0..MaxColumns} :
         \A i, j \in 1..Len(cols) : i # j => cols[i] # cols[j]}

DetectSources ==
    {Unreadable, Directory(<< >>), Directory(<<[class |-> "cat", ext |-> "jpg"]>>)}
        \cup {Parsed(1, [i \in 1..Len(cols) |-> [name |-> cols[i], dtype |-> "object"]]) :
                  cols \in ColumnLists}
        \cup {Parsed(0, << >>)}

NextDetect ==
    \/ \E kind \in {"csv", "json", "dir"} : import_dataset(kind, NoArg, Unreadable)
    \/ \E d \in DatasetIds : get_dataset(d)
    \/ /\ last.op # "detect_target_column"
       /\ \E content \in DetectSources : detect_target_column(content)

SpecDetect == Init /\ [][NextDetect]_vars

Candidates ==
    << <<"t", "a", "r", "g", "e", "t">>, <<"l", "a", "b", "e", "l">>,
       <<"c", "l", "a", "s", "s">>, <<"y">>,
       <<"o", "u", "t", "c", "o", "m", "e">>,
       <<"r", "e", "s", "u", "l", "t">> >>

(* C17: detect_target_column never raises.  When the data loads, it returns *)
(* the first column, in column order, whose lowercased name contains the    *)
(* first of target, label, class, y, outcome, result (in that order) that   *)
(* is contained in any column name; when none is, 'class' for an images     *)
(* dataset, else the last column, else (no column) None.                    *)
C17_DetectTargetColumn ==
    (last.op = "detect_target_column") =>
        /\ last.ok
        /\ last.loaded =>
               LET cols == last.columns
                   hit(k, i) == Contains(Candidates[k], LowerText(cols[i]))
                   matched == {k \in 1..Len(Candidates) : \E i \in 1..Len(cols) : hit(k, i)}
               IN IF matched # {}
                  THEN LET k == CHOOSE k \in matched : \A m \in matched : k <= m
                           i == CHOOSE i \in 1..Len(cols) :
                                    hit(k, i) /\ \A j \in 1..(i - 1) : ~hit(k, j)
                       IN last.res = Some(cols[i])
                  ELSE IF last.type = "images"
                       THEN last.res = Some(<<"c", "l", "a", "s", "s">>)
                       ELSE IF cols # << >>
                            THEN last.res = Some(cols[Len(cols)])
                            ELSE last.res = NoArg

(* Columns id, age, Target_Label, income: Target_Label. *)
C17_Witness ==
    /\ last.op = "detect_target_column"
    /\ last.columns = <<<<"i", "d">>, <<"a", "g", "e">>, <<"T", "a", "r", "g", "e", "t", "_", "L", "a", "b", "e", "l">>,
                        <<"i", "n", "c", "o", "m", "e">>>>
    /\ last.res = Some(<<"T", "a", "r", "g", "e", "t", "_", "L", "a", "b", "e", "l">>)

(* Columns label, city, Target_Label: the candidate 'target' comes before   *)
(* 'label' and 'y', so Target_Label wins over the columns before it.        *)
C17_WitnessPriority ==
    /\ last.op = "detect_target_column"
    /\ last.columns = <<<<"l", "a", "b", "e", "l">>, <<"c", "i", "t", "y">>,
                        <<"T", "a", "r", "g", "e", "t", "_", "L", "a", "b", "e", "l">>>>
    /\ last.res = Some(<<"T", "a", "r", "g", "e", "t", "_", "L", "a", "b", "e", "l">>)

(* Columns id, age, income match no candidate: the last column. *)
C17_WitnessFallback ==
    /\ last.op = "detect_target_column"
    /\ last.type = "csv"
    /\ last.columns = <<<<"i", "d">>, <<"a", "g", "e">>, <<"i", "n", "c", "o", "m", "e">>>>
    /\ last.res = Some(<<"i", "n", "c", "o", "m", "e">>)

(* ------------------------ labels: add and update ------------------------ *)
(* The arguments of update_label: nothing, each field alone, all empty, all. *)
LabelUpdates ==
    {<<NoArg, NoArg, NoArg>>,
     <<Some("dog"), NoArg, NoArg>>,
     <<NoArg, Some(<< <<"b">>, <<"c">> >>), NoArg>>,
     <<NoArg, NoArg, Some([j |-> 1])>>,
     <<NoArg, NoArg, Some([k |-> 2])>>,
     <<Some(""), Some(<< >>), Some(<< >>)>>,
     <<Some("dog"), Some(<< <<"b">> >>), Some([k |-> 2, j |-> 1])>>}

(* Annotations are added as time passes; an update is applied to each of    *)
(* the stores this gives, to an id that is stored or not.                   *)
NextLabels ==
    \/ /\ last.op # "update_label"
       /\ \/ \E item_index \in {0, 1}, metadata \in {NoArg, Some([k |-> 1])} :
                 add_label(1, item_index, "x.png", "cat", Some(<< <<"a">> >>), metadata)
          \/ tick
          \/ \E a \in AnnotationIds, update \in LabelUpdates :
                 update_label(a, update[1], update[2], update[3])

SpecLabels == Init /\ [][NextLabels]_vars

(* C18: update_label keeps every field that is not supplied, replaces the   *)
(* label and the tags by the supplied ones, merges the supplied metadata    *)
(* key by key into the stored metadata, never changes id, dataset_id,       *)
(* item_index, item_path or created_at, and changes no other annotation.    *)
C18_UpdateLabelMerges ==
    (last.op = "update_label" /\ last.ok) =>
        LET old == last.before[last.id]
            new == annotations[last.id]
        IN /\ new.label = (IF last.label.given THEN last.label.val ELSE old.label)
           /\ new.tags = (IF last.tags.given THEN last.tags.val ELSE old.tags)
           /\ IF last.metadata.given
              THEN /\ DOMAIN new.metadata = DOMAIN old.metadata \cup DOMAIN last.metadata.val
                   /\ \A k \in DOMAIN new.metadata :
                          new.metadata[k] = (IF k \in DOMAIN last.metadata.val
                                             THEN last.metadata.val[k]
                                             ELSE old.metadata[k])
              ELSE new.metadata = old.metadata
           /\ new.id = old.id
           /\ new.dataset_id = old.dataset_id
           /\ new.item_index = old.item_index
           /\ new.item_path = old.item_path
           /\ new.created_at = old.created_at
           /\ DOMAIN annotations = DOMAIN last.before
           /\ \A a \in DOMAIN annotations \ {last.id} : annotations[a] = last.before[a]

(* Only metadata {j: 1} is supplied for an annotation with metadata {k: 1}, *)
(* later than its creation and next to another annotation: the label and    *)
(* the tags stay, the metadata is {k: 1, j: 1}.                             *)
C18_Witness ==
    /\ last.op = "update_label"
    /\ last.ok
    /\ ~last.label.given
    /\ ~last.tags.given
    /\ last.metadata = Some([j |-> 1])
    /\ annotations[last.id].metadata = [k |-> 1, j |-> 1]
    /\ annotations[last.id].label = "cat"
    /\ annotations[last.id].updated_at > annotations[last.id].created_at
    /\ Cardinality(DOMAIN annotations) = 2

(* The label is replaced by '' and the tags by []. *)
C18_WitnessEmpty ==
    /\ last.op = "update_label"
    /\ last.ok
    /\ last.label = Some("")
    /\ last.tags = Some(<< >>)
    /\ annotations[last.id].label = ""
    /\ annotations[last.id].tags = << >>

(* ---------------------------- label statistics -------------------------- *)
NextStatistics ==
    \/ \E content \in {Parsed(r, << >>) : r \in 0..MaxRows} :
           import_dataset("csv", NoArg, content)
    \/ \E d \in DatasetIds, label \in {"cat", "dog", ""},
          tags \in {NoArg, Some(<< <<"a">> >>), Some(<< <<"a">>, <<"b">> >>)} :
           add_label(d, 0, "", label, tags, NoArg)
    \/ \E a \in AnnotationIds : delete_annotation(a)
    \/ \E d \in DatasetIds : get_label_statistics(d)

SpecStatistics == Init /\ [][NextStatistics]_vars

(* C19: for a stored dataset, get_label_statistics reports labeled_items =  *)
(* the number of its annotations, unlabeled_items = max(0, row_count -      *)
(* labeled_items), progress_percent = labeled_items / row_count * 100 (0    *)
(* when row_count is 0), label_distribution = how many annotations carry    *)
(* each label (an annotation whose label is '' carries none) and            *)
(* tag_distribution = how often each tag occurs in their tag lists.         *)
C19_LabelStatistics ==
    (last.op = "get_label_statistics" /\ last.id \in DOMAIN datasets) =>
        LET ids == {a \in DOMAIN annotations : annotations[a].dataset_id = last.id}
            row_count == datasets[last.id].row_count
            labeled == Cardinality(ids)
            labels == {annotations[a].label : a \in ids} \ {""}
            tags == UNION {Range(annotations[a].tags) : a \in ids}
            occurrences(a, t) ==
                Cardinality({i \in 1..Len(annotations[a].tags) : annotations[a].tags[i] = t})
            res == last.res
        IN /\ res.labeled_items = labeled
           /\ res.unlabeled_items >= 0
           /\ res.unlabeled_items = (IF row_count >= labeled THEN row_count - labeled ELSE 0)
           /\ IF row_count = 0
              THEN res.progress_percent.num = 0
              ELSE res.progress_percent.num * row_count =
                       labeled * 100 * res.progress_percent.den
           /\ res.progress_percent.den > 0
           /\ DOMAIN res.label_distribution = labels
           /\ \A l \in labels :
                  res.label_distribution[l] =
                      Cardinality({a \in ids : annotations[a].label = l})
           /\ DOMAIN res.tag_distribution = tags
           /\ \A t \in tags :
                  res.tag_distribution[t] =
                      SumValues([a \in ids |-> occurrences(a, t)])

(* Two annotations on a dataset of one row: nothing unlabeled, not -1. *)
C19_Witness ==
    /\ last.op = "get_label_statistics"
    /\ last.id \in DOMAIN datasets
    /\ datasets[last.id].row_count = 1
    /\ last.res.labeled_items = 2
    /\ last.res.unlabeled_items = 0
    /\ last.res.tag_distribution = (<<"a">> :> 2 @@ <<"b">> :> 1)

(* A dataset without rows: progress 0. *)
C19_WitnessNoRows ==
    /\ last.op = "get_label_statistics"
    /\ last.id \in DOMAIN datasets
    /\ datasets[last.id].row_count = 0
    /\ last.res.labeled_items = 1
    /\ last.res.progress_percent.num = 0

(* ----------------------- the labeling view: apply ----------------------- *)
SelectedRows == {<< >>, <<0>>, <<1>>, <<0, 1>>, <<1, 0>>}

NextApply ==
    \/ \E d \in {1, 2}, rows \in SelectedRows, label \in {"cat", "dog", ""} :
           apply_label(d, rows, label)
    \/ \E a \in AnnotationIds : delete_annotation(a)

SpecApply == Init /\ [][NextApply]_vars

AnnotationsAt(tbl, dataset_id, item_index) ==
    {a \in DOMAIN tbl : tbl[a].dataset_id = dataset_id /\ tbl[a].item_index = item_index}

(* C20: from the empty store, under apply-label actions (and deletions of   *)
(* single annotations), every (dataset, item_index) has at most one         *)
(* annotation; after an apply-label of a label to some rows each of these   *)
(* rows has its annotation, carrying that label, and every other annotation *)
(* is still there with the label it had, so that each annotation carries    *)
(* the label most recently applied to it.                                   *)
C20_ApplyLabelKeepsOne ==
    /\ \A a, b \in DOMAIN annotations :
           (annotations[a].dataset_id = annotations[b].dataset_id
                /\ annotations[a].item_index = annotations[b].item_index) => a = b
    /\ (last.op = "apply_label" /\ last.label # "") =>
           /\ \A i \in Range(last.rows) :
                  \E a \in AnnotationsAt(annotations, last.id, i) :
                      annotations[a].label = last.label
           /\ \A a \in DOMAIN last.before :
                  ~(last.before[a].dataset_id = last.id
                        /\ last.before[a].item_index \in Range(last.rows)) =>
                      /\ a \in DOMAIN annotations
                      /\ annotations[a].label = last.before[a].label

(* 'dog' was applied to rows 0 and 1 of which only row 0 had an annotation, *)
(* 'cat': that one was updated and one was added for row 1; both are 'dog'. *)
C20_Witness ==
    /\ last.op = "apply_label"
    /\ last.label = "dog"
    /\ last.rows = <<0, 1>>
    /\ Cardinality(DOMAIN last.before) = 1
    /\ \A a \in DOMAIN last.before :
           /\ last.before[a].dataset_id = last.id
           /\ last.before[a].item_index = 0
           /\ last.before[a].label = "cat"
           /\ a \in DOMAIN annotations
    /\ Cardinality(DOMAIN annotations) = 2
    /\ \A a \in DOMAIN annotations : annotations[a].label = "dog"


(* ------------------- operations that take an id: missing records ------- *)

(* The operations that raise ValueError for a missing record, and the two  *)
(* that report it in the dict they return.                                  *)
RaisingOps ==
    {"refresh_dataset", "start_experiment", "complete_experiment", "fail_experiment",
     "log_metrics", "log_parameters", "export_report", "update_model",
     "increment_version"}

ReportingOps == {"verify_model_file", "get_label_statistics"}

(* The by-id operations are tried in every arrangement of stored and      *)
(* deleted records; a lookup that found its record ends the run.           *)
NextLookups ==
    /\ ~(last.op \in RaisingOps /\ last.ok)
    /\ \/ import_dataset("csv", NoArg, Parsed(1, << >>))
       \/ create_experiment(1, "rf", << >>)
       \/ \E e \in ExperimentIds : register_model("m", e, DefaultVersion)
       \/ \E d \in DatasetIds : delete_dataset(d)
       \/ \E e \in ExperimentIds : delete_experiment(e)
       \/ \E m \in ModelIds : delete_model(m)
       \/ \E d \in DatasetIds : refresh_dataset(d, Parsed(0, << >>))
       \/ \E e \in ExperimentIds : start_experiment(e)
       \/ \E e \in ExperimentIds : complete_experiment(e, NoArg, 5, << >>)
       \/ \E e \in ExperimentIds : fail_experiment(e, "boom")
       \/ \E e \in ExperimentIds : log_metrics(e, [acc |-> 1])
       \/ \E e \in ExperimentIds : log_parameters(e, [lr |-> 1])
       \/ \E e \in ExperimentIds : export_report(e)
       \/ \E m \in ModelIds, notes \in {NoArg, Some("kept")},
             metrics \in {NoArg, Some([acc |-> 1])} :
              update_model(m, notes, NoArg, metrics)
       \/ \E m \in ModelIds : increment_version(m)
       \/ \E m \in ModelIds, file_exists \in BOOLEAN : verify_model_file(m, file_exists)
       \/ \E d \in DatasetIds : get_label_statistics(d)

SpecLookups == Init /\ [][NextLookups]_vars

(* The table an operation looks its id up in. *)
LookedUpIn(op) ==
    IF op \in {"refresh_dataset", "get_label_statistics"} THEN datasets
    ELSE IF op \in {"update_model", "increment_version", "verify_model_file"} THEN models
    ELSE experiments

MissingRecord ==
    /\ last.op \in RaisingOps \cup ReportingOps
    /\ last.id \notin DOMAIN LookedUpIn(last.op)

(* C12 as stated: every one of the eleven operations, called with an id no *)
(* record has, fails with NotFound and leaves every table as it was.        *)
C12_MissingIdFailsFast ==
    MissingRecord => ~last.ok /\ last.before = Tables

(* C12, amended: with an id no record has, refresh_dataset, start_,         *)
(* complete_ and fail_experiment, log_metrics, log_parameters,              *)
(* export_report, update_model and increment_version raise, while          *)
(* verify_model_file and get_label_statistics return a dict that holds an   *)
(* 'error' entry and no data of a record; in every case no table changes.   *)
C12_MissingIdRaisesOrReports ==
    MissingRecord =>
        /\ last.before = Tables
        /\ last.op \in RaisingOps => ~last.ok
        /\ last.op \in ReportingOps =>
               /\ last.ok
               /\ "error" \in DOMAIN last.res
               /\ DOMAIN last.res \subseteq {"error", "exists"}
               /\ "exists" \in DOMAIN last.res => ~last.res.exists

(* increment_version was called with the id of a deleted model while       *)
(* another model is stored.                                                 *)
C12_Witness ==
    /\ last.op = "increment_version"
    /\ MissingRecord
    /\ models # << >>
    /\ nextId.model > last.id

(* get_label_statistics was called for a deleted dataset. *)
C12_WitnessReported ==
    /\ last.op = "get_label_statistics"
    /\ MissingRecord
    /\ nextId.dataset > last.id


(* ------------------- completing and failing an experiment -------------- *)

(* The mapping passed as final metrics; none when the argument is omitted. *)
FinalMetrics == IF last.args.metrics.given THEN last.args.metrics.val ELSE << >>

(* C21: complete_experiment sets the status to completed and the duration  *)
(* to the supplied value, and merges the final metrics into the metrics     *)
(* logged before: keys not named are kept, named ones take the new value,   *)
(* and without final metrics the mapping is unchanged.                      *)
C21_CompleteMergesMetrics ==
    (last.op = "complete_experiment" /\ last.ok) =>
        LET old == last.before[last.id]
            new == experiments[last.id]
        IN /\ new.status = "completed"
           /\ new.duration_seconds = last.args.duration_seconds
           /\ DOMAIN new.metrics = DOMAIN old.metrics \cup DOMAIN FinalMetrics
           /\ \A k \in DOMAIN new.metrics :
                  new.metrics[k] = IF k \in DOMAIN FinalMetrics
                                   THEN FinalMetrics[k] ELSE old.metrics[k]
           /\ DOMAIN FinalMetrics = {} => new.metrics = old.metrics

(* An experiment with acc and f1 logged was completed with a new acc. *)
C21_Witness ==
    /\ last.op = "complete_experiment"
    /\ last.ok
    /\ last.before[last.id].metrics = [acc |-> 2, f1 |-> 1]
    /\ experiments[last.id].metrics = [acc |-> 3, f1 |-> 1]
    /\ experiments[last.id].duration_seconds = 5

(* An experiment with logged metrics was completed without final metrics. *)
C21_WitnessNoMetrics ==
    /\ last.op = "complete_experiment"
    /\ last.ok
    /\ ~last.args.metrics.given
    /\ last.before[last.id].metrics # << >>

(* C22: fail_experiment sets the status to failed, keeps the notes the      *)
(* experiment had and adds the error message after them.                    *)
C22_FailAppendsNote ==
    (last.op = "fail_experiment" /\ last.ok) =>
        LET old == last.before[last.id].notes
            new == experiments[last.id].notes
        IN /\ experiments[last.id].status = "failed"
           /\ Len(new) > Len(old)
           /\ SubSeq(new, 1, Len(old)) = old
           /\ new[Len(new)] = last.args


(* ------------------- logging metrics and parameters -------------------- *)

LoggingTables(n) ==
    ExperimentTables(
        ExperimentRows(1..n, {1}, {"rf"}, {"running"}, {<< >>},
                       {<< >>, [acc |-> 1]}, {<< >>}, 1..n), n)

InitLogging == InitStore(UNION {LoggingTables(n) : n \in 1..MaxListed})

NextLogging ==
    \/ \E e \in {1, 2}, metrics \in {<< >>, [acc |-> 2], [acc |-> 1, f1 |-> 2]} :
           log_metrics(e, metrics)
    \/ \E e \in {1, 2}, parameters \in {[lr |-> 1], [lr |-> 2, depth |-> 1]} :
           log_parameters(e, parameters)

SpecLogging == InitLogging /\ [][NextLogging]_vars

(* The mapping of the experiment that the last call logs into. *)
Logged(experiment) ==
    IF last.op = "log_metrics" THEN experiment.metrics ELSE experiment.parameters

(* C30: a log_metrics (log_parameters) call on a stored experiment leaves   *)
(* its metrics (parameters) equal to the mapping it had overridden by the   *)
(* supplied one, removes no key, and changes no other field of it and no    *)
(* other experiment; a sequence of calls therefore accumulates in order.    *)
C30_LoggingAccumulates ==
    (last.op \in {"log_metrics", "log_parameters"} /\ last.ok) =>
        LET old == last.before[last.id]
            new == experiments[last.id]
        IN /\ DOMAIN Logged(old) \subseteq DOMAIN Logged(new)
           /\ DOMAIN Logged(new) = DOMAIN Logged(old) \cup DOMAIN last.args
           /\ \A k \in DOMAIN Logged(new) :
                  Logged(new)[k] = IF k \in DOMAIN last.args
                                   THEN last.args[k] ELSE Logged(old)[k]
           /\ new.status = old.status
           /\ new.timestamp = old.timestamp
           /\ new.notes = old.notes
           /\ new.dataset_id = old.dataset_id
           /\ last.op = "log_metrics" => new.parameters = old.parameters
           /\ last.op = "log_parameters" => new.metrics = old.metrics
           /\ DOMAIN experiments = DOMAIN last.before
           /\ \A other \in DOMAIN experiments \ {last.id} :
                  experiments[other] = last.before[other]

(* Metrics were logged into an experiment that already had acc and f1, next *)
(* to another experiment; acc was overridden and f1 kept.                   *)
C30_Witness ==
    /\ last.op = "log_metrics"
    /\ last.ok
    /\ Cardinality(DOMAIN experiments) >= 2
    /\ last.before[last.id].metrics = [acc |-> 1, f1 |-> 2]
    /\ last.args = [acc |-> 2]
    /\ experiments[last.id].metrics = [acc |-> 2, f1 |-> 2]

(* Parameters were logged on top of earlier ones. *)
C30_WitnessParameters ==
    /\ last.op = "log_parameters"
    /\ last.ok
    /\ last.before[last.id].parameters = [lr |-> 2, depth |-> 1]
    /\ experiments[last.id].parameters = [lr |-> 1, depth |-> 1]


(* ------------------- concurrent callers of refresh_dataset ------------- *)

(* One dataset is imported (version 1); every caller refreshes it once. *)
NextConcurrent ==
    \/ \E kind \in {"csv", "json"}, content \in Contents : import_dataset(kind, NoArg, content)
    \/ \E c \in CallerIds, d \in DatasetIds : refresh_read(c, d)
    \/ \E c \in CallerIds, content \in Contents : refresh_write(c, content)

SpecConcurrent == Init /\ [][NextConcurrent]_vars

(* The callers whose refresh of dataset d has returned. *)
Refreshed(d) == {c \in CallerIds : callers[c].pc = "done" /\ callers[c].id = d}

(* C23: once no refresh of a dataset is under way, its persisted version is *)
(* higher than the version it was imported with (1) by the number of        *)
(* refresh_dataset calls that ran on it, however their reads and writes     *)
(* were interleaved.                                                        *)
C23_ConcurrentRefreshCounts ==
    \A d \in DOMAIN datasets :
        (\A c \in CallerIds : callers[c].pc # "read") =>
            datasets[d].version = 1 + Cardinality(Refreshed(d))


(* ------------------- bulk_label ---------------------------------------- *)

LabelEntries ==
    {[item_index |-> 0, label |-> "cat"], [item_index |-> 1, label |-> "dog", tags |-> <<"a">>],
     [item_index |-> 2]}

(* Lists of entries, and one whose second entry has no item_index. *)
LabelLists ==
    UNION {[1..n -> LabelEntries] : n \in 0..(MaxAnnotations + 1)}
    \cup {<<[item_index |-> 0, label |-> "cat"], [label |-> "cat"],
            [item_index |-> 1, label |-> "dog"]>>}

NextBulk ==
    \/ \E labels \in LabelLists : bulk_label(1, labels)
    \/ \E a \in AnnotationIds : delete_annotation(a)

SpecBulk == Init /\ [][NextBulk]_vars

(* The position of the first entry that lacks item_index or label; 0 when  *)
(* every entry has both.                                                    *)
FirstBad(labels) ==
    IF \A i \in 1..Len(labels) : {"item_index", "label"} \subseteq DOMAIN labels[i]
    THEN 0
    ELSE CHOOSE i \in 1..Len(labels) :
             /\ ~({"item_index", "label"} \subseteq DOMAIN labels[i])
             /\ \A j \in 1..(i - 1) : {"item_index", "label"} \subseteq DOMAIN labels[j]

(* C24: bulk_label adds its entries in list order without rollback: when    *)
(* the k-th entry fails, the annotations of entries 1..k-1 are stored, no   *)
(* later entry is added and the error reaches the caller; the annotations   *)
(* stored before the call are untouched.                                    *)
C24_BulkLabelNoRollback ==
    (last.op = "bulk_label") =>
        LET k == FirstBad(last.labels)
            added == IF k = 0 THEN Len(last.labels) ELSE k - 1
        IN /\ last.ok <=> k = 0
           /\ k # 0 => last.raised = "KeyError"
           /\ DOMAIN annotations = DOMAIN last.before \cup
                                   {last.first + i - 1 : i \in 1..added}
           /\ \A a \in DOMAIN last.before : annotations[a] = last.before[a]
           /\ \A i \in 1..added :
                  LET ann == annotations[last.first + i - 1]
                  IN /\ ann.dataset_id = last.id
                     /\ ann.item_index = last.labels[i].item_index
                     /\ ann.label = last.labels[i].label

(* The third entry failed after two entries were added. *)
C24_Witness ==
    /\ last.op = "bulk_label"
    /\ ~last.ok
    /\ Len(last.labels) = 3
    /\ FirstBad(last.labels) = 3
    /\ Cardinality(DOMAIN annotations \ DOMAIN last.before) = 2

(* The second entry failed: the first is stored, the good third one is not. *)
C24_WitnessLaterSkipped ==
    /\ last.op = "bulk_label"
    /\ FirstBad(last.labels) = 2
    /\ Len(last.labels) = 3
    /\ ~EntryFails(last.labels[3])
    /\ Cardinality(DOMAIN annotations \ DOMAIN last.before) = 1


(* ------------------- get_statistics ------------------------------------ *)

ReportSources ==
    {Unreadable, Directory(<< >>), Directory(<<[class |-> "cat", ext |-> "jpg"]>>)}
        \cup {Parsed(r, c) : r \in 0..MaxRows, c \in Columns}

(* A dataset is imported and read; the caller asks for the statistics of    *)
(* the object it holds, also after the file changed or went away, after the *)
(* row was deleted, and with a type load_data does not know.                *)
NextReport ==
    \/ \E kind \in {"csv", "json", "dir"}, content \in ReportSources :
           /\ content \in SourcesAt(kind)
           /\ import_dataset(kind, NoArg, content)
    \/ \E d \in DatasetIds : get_dataset(d)
    \/ \E d \in DatasetIds : delete_dataset(d)
    \/ /\ last.op # "get_statistics"
       /\ held # << >>
       /\ \E dataset \in {held[1], [held[1] EXCEPT !.type = "parquet"]},
             content \in ReportSources, fails_at \in 0..2 :
              get_statistics(dataset, content, fails_at)

SpecReport == Init /\ [][NextReport]_vars

ReportKeys == {"basic_stats", "column_stats", "missing_values", "class_distribution"}

(* The computation of the last report failed: the type is unknown, the file *)
(* of a csv or json dataset cannot be read, or a column's statistics raise. *)
ComputationFailed ==
    \/ last.dataset.type \notin {"csv", "json", "images"}
    \/ last.dataset.type \in {"csv", "json"} /\ ~last.content.parses
    \/ /\ last.dataset.type \in {"csv", "json"}
       /\ last.content.parses
       /\ last.dataset.type = "json" => last.content.rows > 0
       /\ last.fails_at \in 1..Len(last.content.columns)

(* C25: get_statistics never raises; its report always holds basic_stats,  *)
(* column_stats, missing_values and class_distribution, holds an error      *)
(* entry when the computation failed, and the store is left as it was.      *)
C25_StatisticsNeverRaises ==
    (last.op = "get_statistics") =>
        /\ last.ok
        /\ ReportKeys \subseteq DOMAIN last.res
        /\ ComputationFailed => "error" \in DOMAIN last.res
        /\ last.before = Tables

(* The statistics of a csv dataset whose file is gone were asked for. *)
C25_Witness ==
    /\ last.op = "get_statistics"
    /\ last.dataset.type = "csv"
    /\ last.dataset.row_count > 0
    /\ last.content = Unreadable
    /\ "error" \in DOMAIN last.res

(* The statistics of a dataset of unknown type were asked for. *)
C25_WitnessUnknownType ==
    /\ last.op = "get_statistics"
    /\ last.dataset.type = "parquet"
    /\ "error" \in DOMAIN last.res

(* The second column failed: the report is partial. *)
C25_WitnessPartial ==
    /\ last.op = "get_statistics"
    /\ last.fails_at = 2
    /\ "error" \in DOMAIN last.res
    /\ Cardinality(DOMAIN last.res.column_stats) = 1


(* ------------------- get_latest_version -------------------------------- *)

Versions == {<<1, 0, 0>>, <<1, 0, 2>>, <<1, 0, 9>>, <<1, 0, 10>>, <<2, 0>>}

NextVersions ==
    \/ \E name \in {"m", "n"}, version \in Versions : register_model(name, 1, version)
    \/ \E m \in ModelIds : increment_version(m)
    \/ \E m \in ModelIds : delete_model(m)
    \/ /\ last.op # "get_latest_version"
       /\ \E name \in {"m", "n"} : get_latest_version(name)

SpecVersions == Init /\ [][NextVersions]_vars

(* a is an earlier version than b: the first part that differs is smaller, *)
(* as a number.                                                             *)
RECURSIVE Earlier(_, _)
Earlier(a, b) ==
    IF b = << >> THEN FALSE
    ELSE IF a = << >> THEN TRUE
    ELSE IF Head(a) # Head(b) THEN Head(a) < Head(b)
    ELSE Earlier(Tail(a), Tail(b))

(* C26: get_latest_version(name) returns None when no stored model has the  *)
(* name, and otherwise a stored model of that name than which no model of   *)
(* that name has a later version, versions compared part by part as         *)
(* numbers.                                                                 *)
C26_LatestVersionIsNumeric ==
    (last.op = "get_latest_version") =>
        LET matching == {m \in DOMAIN models : models[m].name = last.id}
        IN /\ ~last.res.given <=> matching = {}
           /\ last.res.given =>
                  /\ last.res.val.id \in matching
                  /\ last.res.val = models[last.res.val.id]
                  /\ \A o \in matching : ~Earlier(last.res.val.version, models[o].version)


(* ------------------- what a delete leaves alone ------------------------ *)

(* The datasets of InitFrame, and an id no dataset ever had. *)
FrameDatasets == {1, 2}

GhostDataset == 3

(* Two datasets are stored; labels, experiments and models are      *)
(* added under stored and unknown parent ids, and parents are deleted.      *)
InitFrame ==
    /\ datasets = [d \in FrameDatasets |->
                       analyze_dataset(NewDataset(d, basename("csv"), "csv"),
                                       Parsed(1, << >>))]
    /\ annotations = << >>
    /\ experiments = << >>
    /\ models = << >>
    /\ nextId = [dataset |-> GhostDataset, annotation |-> 1, experiment |-> 1, model |-> 1]
    /\ clock = 1
    /\ held = << >>
    /\ conn = Closed
    /\ exported = << >>
    /\ callers = [c \in CallerIds |-> [pc |-> "idle"]]
    /\ last = Idle

NextFrame ==
    \/ \E d \in FrameDatasets \cup {GhostDataset} :
           clock = 1 /\ add_label(d, 0, "", "cat", NoArg, NoArg)
    \/ /\ clock = 1
       /\ bulk_label(GhostDataset, <<[item_index |-> 0, label |-> "cat"],
                                     [item_index |-> 1, label |-> "dog"]>>)
    \/ create_experiment(1, "rf", << >>)
    \/ \E e \in {1, MaxExperiments + 1} : register_model("m", e, DefaultVersion)
    \/ \E d \in FrameDatasets \cup {GhostDataset} : delete_dataset(d)
    \/ \E e \in {1, MaxExperiments + 1} : delete_experiment(e)

SpecFrame == InitFrame /\ [][NextFrame]_vars

(* C27: delete_dataset(D) removes the row D and the annotations whose       *)
(* dataset_id is D, and nothing else: other datasets, the annotations of    *)
(* other datasets, all experiments (those of D too) and all models stay.    *)
C27_DeleteDatasetFrame ==
    [][(last'.op = "delete_dataset") =>
           /\ datasets' = Restrict(datasets, DOMAIN datasets \ {last'.id})
           /\ annotations' = Restrict(annotations,
                                      {a \in DOMAIN annotations :
                                           annotations[a].dataset_id # last'.id})
           /\ experiments' = experiments
           /\ models' = models]_vars

(* A dataset that had an annotation and an experiment with a model was      *)
(* deleted next to another labelled dataset; the experiment outlives it.    *)
C27_Witness ==
    /\ last.op = "delete_dataset"
    /\ last.prev
    /\ last.children # {}
    /\ \E e \in DOMAIN experiments :
           /\ experiments[e].dataset_id = last.id
           /\ \E m \in DOMAIN models : models[m].experiment_id = e
    /\ datasets # << >>
    /\ annotations # << >>

(* C28: a delete_dataset or delete_experiment that returns false leaves     *)
(* every table as it was before the call.                                   *)
C28_FalseDeleteChangesNothing ==
    [][(last'.op \in {"delete_dataset", "delete_experiment"} /\ ~last'.res) =>
           UNCHANGED Tables]_vars


(* ------------------- updates with a stale object ----------------------- *)

NextStale ==
    \/ nextId.dataset = 1 /\ import_dataset("csv", NoArg, Parsed(1, << >>))
    \/ nextId.annotation <= 2 /\ clock = 1 /\ add_label(1, 0, "", "cat", NoArg, NoArg)
    \/ nextId.experiment <= 2 /\ create_experiment(1, "rf", << >>)
    \/ nextId.model = 1 /\ register_model("m", 1, DefaultVersion)
    \/ \E kind \in Kinds, id \in {1, 2} : db_get(kind, id)
    \/ delete_dataset(1)
    \/ \E a \in {1, 2} : delete_annotation(a)
    \/ \E e \in {1, 2} : delete_experiment(e)
    \/ delete_model(1)
    \/ last.op # "db_update" /\ db_update

SpecStale == Init /\ [][NextStale]_vars

(* C29: an update by id creates no row and changes no row but the one with  *)
(* that id; when no row has the id (the object is a stale copy of a deleted *)
(* record) every table is as before and a get by that id still finds       *)
(* nothing.  Datasets, annotations, experiments and models alike.           *)
C29_NoResurrection ==
    (last.op = "db_update") =>
        /\ \A k \in 1..4 :
               /\ DOMAIN Tables[k] = DOMAIN last.before[k]
               /\ \A r \in DOMAIN Tables[k] :
                      (k # KindIndex(last.kind) \/ r # last.id) =>
                          Tables[k][r] = last.before[k][r]
        /\ last.id \in DOMAIN TableOfKind(last.kind) =>
               TableOfKind(last.kind)[last.id] = last.obj
        /\ last.id \notin DOMAIN last.before[KindIndex(last.kind)] =>
               /\ Tables = last.before
               /\ last.id \notin DOMAIN TableOfKind(last.kind)

(* The notes of a deleted experiment were saved from the copy a view held,  *)
(* while a dataset and a model were stored.                                 *)
C29_Witness ==
    /\ last.op = "db_update"
    /\ last.kind = "experiment"
    /\ last.id \notin DOMAIN experiments
    /\ last.id < nextId.experiment
    /\ datasets # << >>
    /\ models # << >>
    /\ Tables = last.before

(* A stale annotation was written back after its row was deleted, while *)
(* another annotation was stored.                                        *)
C29_WitnessAnnotation ==
    /\ last.op = "db_update"
    /\ last.kind = "annotation"
    /\ last.id \notin DOMAIN annotations
    /\ last.id < nextId.annotation
    /\ annotations # << >>

====
